---- MODULE Spec2Model ----
\* The streaming seeder of the stocks-data table: populateTable (the producer),
\* the worker goroutines that batch the items of the shared channel, and
\* processBatch, the bulk write with its retry loop.
EXTENDS Integers, Sequences, FiniteSets, Bags, TLC

\* ---------------------------------------------------------------- bounds
\* The program runs with batchSize = 25, numWorkers = 10 and totalDays = 1303;
\* the model runs every configuration up to these sizes.
MaxBatchSize == 2
MaxWorkers == 2
MaxDays == 2
\* ... and only those whose number of workers times number of items is at most
MaxLoad == 8

\* processBatch: maxRetries := 3
maxRetries == 3

\* var tickers = []string{...}: the first symbols of the list
tickers == <<"AAPL", "GOOGL">>

VARIABLES
    cfg,          \* batchSize, numWorkers, tickers, totalDays, the channel's capacity
                  \* and the items attributevalue.MarshalMap fails for
    ppc,          \* populateTable: the statement the producer is at
    spawned,      \* populateTable: i of the loop that starts the workers
    ti,           \* populateTable: index in tickers of the ticker being generated
    di,           \* populateTable: i of the loop over totalDays
    item,         \* populateTable: the generated item the producer holds
    itemChan,     \* the buffered channel's queue
    closed,       \* whether close(itemChan) has run
    wg,           \* the WaitGroup's counter
    mu,           \* the mutex: 0 when free, else the worker that holds it
    totalItems,   \* the shared counter
    wpc,          \* worker: the statement each worker is at
    batch,        \* worker: its batch slice
    batchCount,   \* worker: batchCount
    workerItems,  \* worker: workerItems
    final,        \* worker: whether the range loop has ended
    attempt,      \* processBatch: attempt
    err,          \* what processBatch returned to the worker: "none", "nil", "err"
    reg,          \* the value of *totalItems a worker has loaded for its +=
    summary,      \* the total populateTable logs, -1 before it is computed
    result,       \* what populateTable returned: "none", "nil"
    \* history of the run, read by no action
    flushCount,   \* per item, the number of batches passed to processBatch that hold it
    sizes,        \* per worker, the sizes of the batches it passed to processBatch, in order
    calls,        \* per worker, the outcomes of the BatchWriteItem calls of its current processBatch
    waits,        \* per worker, the seconds slept between the calls of its current processBatch
    okCalls,      \* number of BatchWriteItem calls that succeeded
    okItems,      \* number of items carried by the calls that succeeded
    anyFail,      \* whether a BatchWriteItem call has failed
    counted,      \* the sum of the sizes of the batches added to totalItems
    adds,         \* number of additions to totalItems
    dropped,      \* number of items of the batches dropped
    logged,       \* per worker, the batches its completion line reports, -1 before
    \* main
    mpc,          \* main: the statement main is at
    tbl,          \* main: index of the table ensureTableExists is called for
    tki,          \* populateTickerTable: index of the ticker of its loop
    exitCode,     \* the exit status of the process, -1 while it runs
    setupFailed,  \* history: whether LoadDefaultConfig or ensureTableExists failed
    \* the generation of the items, in detail
    gpc,          \* populateTable: the statement of the generation loop it is at
    now,          \* the day of time.Now() of the run
    startDate,    \* populateTable: startDate, as a day number
    rnd,          \* the state of the random source r
    gt,           \* populateTable: index in tickers of the ticker of the loop
    gi,           \* populateTable: i of the loop over totalDays
    dayOffset,    \* populateTable: dayOffset
    currentPrice, \* populateTable: currentPrice, generateDailyData's previousClose
    draws,        \* the values the random source returned to the last generateDailyData
    bar,          \* the item the last generateDailyData returned
    emitted,      \* history: the items generated in this run, in order
    args,         \* history: the previousClose passed for each item of emitted
    run,          \* 1 in the first run of the program, 2 in the second
    emitted1,     \* history: the items generated in the first run
    \* Handler.GetAllTickers
    hpc,          \* GetAllTickers: the statement the request is at
    svcCalls,     \* the number of calls of tickerService.GetActiveTickers
    svcRet,       \* what tickerService.GetActiveTickers returns: tickers and err
    resp,         \* the response written: status and body
    \* MockTickerRepository
    mtickers,     \* m.tickers: the map from symbol to ticker
    mcalls,       \* m.Calls: the GetTicker and GetActiveTickers lists
    mfunc,        \* m.GetTickerFunc and m.GetActiveTickersFunc
    mmu,          \* m.mu: the caller that holds the lock (0: none), those that hold a read lock
    caller,       \* per caller of the mock: its statement, the method it is in, its
                  \* argument, the Calls it loaded
    returned,     \* the method that returned last, and what it returned
    mops,         \* the number of calls of the mock's methods begun
    lastSet,      \* history: the slice of the last SetTickers, empty after Reset
    recorded,     \* history: the GetTicker and GetActiveTickers calls since the last Reset
    \* The job-based seeder
    jcfg,         \* batchSize, maxWorkers, the capacity of jobChan, the length of
                  \* each ticker's generated series
    jprod,        \* main: its statement, the ticker and the offset of its loops
    jobChan,      \* the job channel: its buffer, whether it is closed
    jwg,          \* the WaitGroup's counter
    jwork,        \* per worker: its statement, its job, the item it is at, the
                  \* number of items it has written
    jsent,        \* history: the jobs enqueued, in order
    jdone,        \* history: the bag of the jobs processed, with the worker
    jwrites,      \* history: the number of ticker records whose turn of the loop
                  \* is over, and that number at the first write of a daily summary
    \* Server
    spc,          \* Start: its statement
    scall,        \* the number of calls of Start
    listener,     \* per call of Start, the goroutine that runs ListenAndServe:
                  \* its statement and the error it sends
    serverErrors, \* per call of Start, the buffer of the channel serverErrors
    shutdownCh,   \* the buffer of the channel shutdown
    ctxDone,      \* whether ctx is cancelled
    httpd,        \* httpServer: its state and the number of requests in flight
    clock,        \* the time since gracefulShutdown made shutdownCtx
    sret,         \* what Start returned
    shist,        \* history: the case of the select that was taken, the error
                  \* received from serverErrors, the time the requests in flight
                  \* had when the server was closed by force
    \* package logger
    instance,     \* the package's logger, "nil" before it is built
    initErr,      \* the package's initErr
    once,         \* the package's sync.Once: whether it is done, who runs its function
    lcaller,      \* per goroutine that calls the package: its statement, function,
                  \* configuration, what it read and returned, whether it has
                  \* synchronised with the build
    lcalls,       \* the number of calls of Init, InitWithDefaults and Get begun
    builds,       \* history: the configurations buildLogger was run with
    \* tickerService
    tpc,          \* GetTicker: its statement
    tsym,         \* GetTicker: its argument symbol
    trepo,        \* what the repository answers to GetTicker: a ticker and an error
    trepoCalls,   \* history: the symbols the repository was asked for in this call
    tret,         \* what GetTicker returned: a ticker and an error
    tcalls,       \* the number of calls of GetTicker
    \* tickerRepository
    rpages,       \* the table: the pages Scan returns, in order
    rpc,          \* GetActiveTickers: its statement
    rtickers,     \* GetActiveTickers: its variable tickers
    rkey,         \* GetActiveTickers: its variable lastEvaluatedKey, 0 for nil
    rresult,      \* GetActiveTickers: the output of the last Scan
    rscans,       \* history: the ExclusiveStartKey of each Scan, in order
    rret,         \* what GetActiveTickers returned: the tickers and an error
    \* models.DailySummary
    vbar,         \* the DailySummary Validate is called on
    vres,         \* what Validate returned, "none" before the call
    \* generateDailySummaryData
    dpc,          \* its statement
    dticker,      \* its argument ticker
    dday,         \* its variable d, in days since 1 January 1970
    dend,         \* its argument endDate, in days since 1 January 1970
    dprice,       \* its variable currentPrice
    ddata         \* its variable dailySummaryData

vars == <<cfg, ppc, spawned, ti, di, item, itemChan, closed, wg, mu, totalItems,
          wpc, batch, batchCount, workerItems, final, attempt, err, reg,
          summary, result, flushCount, sizes, calls, waits, okCalls, okItems, anyFail,
          counted, adds, dropped, logged, mpc, tbl, tki, exitCode, setupFailed,
          gpc, now, startDate, rnd, gt, gi, dayOffset, currentPrice, draws, bar,
          emitted, args, run, emitted1, hpc, svcCalls, svcRet, resp,
          mtickers, mcalls, mfunc, mmu, caller, returned, mops, lastSet, recorded,
          jcfg, jprod, jobChan, jwg, jwork, jsent, jdone, jwrites,
          spc, scall, listener, serverErrors, shutdownCh, ctxDone, httpd, clock,
          sret, shist, instance, initErr, once, lcaller, lcalls, builds,
          tpc, tsym, trepo, trepoCalls, tret, tcalls,
          rpages, rpc, rtickers, rkey, rresult, rscans, rret,
          vbar, vres, dpc, dticker, dday, dend, dprice, ddata>>

prodVars == <<ppc, spawned, ti, di, item, summary, result>>
workVars == <<wpc, batch, batchCount, workerItems, final, attempt, err, reg>>
histVars == <<flushCount, sizes, calls, waits, okCalls, okItems, anyFail, counted,
              adds, dropped, logged>>
mainVars == <<mpc, tbl, tki, exitCode, setupFailed>>
genVars == <<gpc, now, startDate, rnd, gt, gi, dayOffset, currentPrice, draws, bar,
             emitted, args, run, emitted1>>
handlerVars == <<hpc, svcCalls, svcRet, resp>>
\* the variables of the API server and of its test doubles
mockVars == <<mtickers, mcalls, mfunc, mmu, caller, returned, mops, lastSet, recorded>>
jobVars == <<jcfg, jprod, jobChan, jwg, jwork, jsent, jdone, jwrites>>
serverVars == <<spc, scall, listener, serverErrors, shutdownCh, ctxDone, httpd,
                clock, sret, shist>>
\* the variables of the parts of the API server modelled apart
loggerVars == <<instance, initErr, once, lcaller, lcalls, builds>>
serviceVars == <<tpc, tsym, trepo, trepoCalls, tret, tcalls>>
\* the variables of the service, of the repository and of the models
repoVars == <<rpages, rpc, rtickers, rkey, rresult, rscans, rret>>
validVars == <<vbar, vres>>
summaryVars == <<dpc, dticker, dday, dend, dprice, ddata>>
tailVars == <<serviceVars, repoVars, validVars, summaryVars>>
moreVars == <<serverVars, loggerVars, tailVars>>
sideVars == <<handlerVars, mockVars, jobVars, moreVars>>
\* every variable of the pipeline but ppc
restVars == <<cfg, spawned, ti, di, item, itemChan, closed, wg, mu, totalItems,
              summary, result, workVars, histVars>>

\* ---------------------------------------------------------------- helpers
Workers == 1..cfg.numWorkers

NoItem == [ticker |-> "", seq |-> -1]

\* itemChan := make(chan DailyAggStockItem, batchSize*numWorkers)
ChanCap(b, n) == b * n

Config(b, n, tk, d, c) ==
    [batchSize |-> b, numWorkers |-> n, tickers |-> tk, totalDays |-> d, cap |-> c,
     bad |-> {}, prog |-> "part_004"]

\* main: the tables ensureTableExists is called for, by program
Tables(prog) ==
    IF prog = "seed_db" THEN <<"stocks-data", "tickers">> ELSE <<"stocks-data">>

\* The sizes the model runs the program with.
Sizes ==
    { s \in (1..MaxBatchSize) \X (1..MaxWorkers) \X (1..MaxDays) :
        s[2] * Len(tickers) * s[3] <= MaxLoad }

\* The configurations of the program: the channel sized as populateTable sizes it.
Configs == { Config(s[1], s[2], tickers, s[3], ChanCap(s[1], s[2])) : s \in Sizes }

\* The items populateTable generates for the tickers tk with totalDays = d: one
\* per ticker and loop index.
ItemsOf(tk, d) == { [ticker |-> tk[t], seq |-> i] :
                      t \in 1..Len(tk), i \in 0..(d - 1) }

AllItems == ItemsOf(cfg.tickers, cfg.totalDays)

NumItems == Len(cfg.tickers) * cfg.totalDays

\* The items of the sequence s, as a set.
Range(s) == { s[k] : k \in 1..Len(s) }

RECURSIVE SumSeq(_)
SumSeq(s) == IF s = <<>> THEN 0 ELSE Head(s) + SumSeq(Tail(s))

\* ---------------------------------------------------------------- Init
\* The state of the pipeline before populateTable runs its first statement.
InitPipeline(c) ==
    /\ cfg = c
    /\ spawned = 0
    /\ ti = 1
    /\ di = 0
    /\ item = NoItem
    /\ itemChan = <<>>
    /\ closed = FALSE
    /\ wg = 0
    /\ mu = 0
    /\ totalItems = 0
    /\ wpc = [w \in 1..c.numWorkers |-> "idle"]
    /\ batch = [w \in 1..c.numWorkers |-> <<>>]
    /\ batchCount = [w \in 1..c.numWorkers |-> 0]
    /\ workerItems = [w \in 1..c.numWorkers |-> 0]
    /\ final = [w \in 1..c.numWorkers |-> FALSE]
    /\ attempt = [w \in 1..c.numWorkers |-> 0]
    /\ err = [w \in 1..c.numWorkers |-> "none"]
    /\ reg = [w \in 1..c.numWorkers |-> 0]
    /\ summary = -1
    /\ result = "none"
    /\ flushCount = [x \in ItemsOf(c.tickers, c.totalDays) |-> 0]
    /\ sizes = [w \in 1..c.numWorkers |-> <<>>]
    /\ calls = [w \in 1..c.numWorkers |-> <<>>]
    /\ waits = [w \in 1..c.numWorkers |-> <<>>]
    /\ okCalls = 0
    /\ okItems = 0
    /\ anyFail = FALSE
    /\ counted = 0
    /\ adds = 0
    /\ dropped = 0
    /\ logged = [w \in 1..c.numWorkers |-> -1]

\* main at its call of populateTable.
MainAtPopulate(c) ==
    /\ mpc = "populate"
    /\ tbl = Len(Tables(c.prog))
    /\ tki = 0
    /\ exitCode = -1
    /\ setupFailed = FALSE

\* The item of a generateDailyData that has not run.
NoBar ==
    [ticker |-> "", timestamp |-> 0, open |-> 0, high |-> 0, low |-> 0, close |-> 0,
     volume |-> 0, vwap |-> 0, transactionCount |-> 0, otc |-> FALSE]

\* The generation is not followed in detail.
GenOff ==
    /\ gpc = "off"
    /\ now = 0
    /\ startDate = 0
    /\ rnd = 0
    /\ gt = 0
    /\ gi = 0
    /\ dayOffset = 0
    /\ currentPrice = 0
    /\ draws = <<>>
    /\ bar = NoBar
    /\ emitted = <<>>
    /\ args = <<>>
    /\ run = 1
    /\ emitted1 = <<>>

\* No request is served by the handler.
HandlerOff ==
    /\ hpc = "off"
    /\ svcCalls = 0
    /\ svcRet = [tickers |-> <<>>, err |-> "nil"]
    /\ resp = [status |-> 0]

\* An override function that is not set.
NoFunc == [set |-> FALSE, tickers |-> <<>>, err |-> "nil"]

\* m.Calls with both lists nil.
NoCalls == [GetTicker |-> <<>>, GetActiveTickers |-> <<>>]

\* A caller that is in no method of the mock.
NoCall == [pc |-> "idle", op |-> "", arg |-> "", reg |-> NoCalls]

\* What the method op, called with arg, returned: by from, its override
\* function or its default implementation.
Returned(op, arg, from, tk, e) ==
    [op |-> op, arg |-> arg, from |-> from, tickers |-> tk, err |-> e]

\* NewMockTickerRepository(), with n callers
NewMock(n) ==
    /\ mtickers = <<>>
    /\ mcalls = NoCalls
    /\ mmu = [w |-> 0, r |-> {}]
    /\ caller = [c \in 1..n |-> NoCall]
    /\ returned = Returned("", "", "", <<>>, "nil")
    /\ mops = 0
    /\ lastSet = <<>>
    /\ recorded = <<>>

\* The mock repository is not used.
MockOff ==
    /\ NewMock(0)
    /\ mfunc = [GetTickerFunc |-> NoFunc, GetActiveTickersFunc |-> NoFunc]

\* The configuration of the job-based seeder: batchSize b, n workers, a job
\* channel of capacity c, tickers whose series have the lengths ser.
JobConfig(b, n, c, ser) ==
    [batchSize |-> b, maxWorkers |-> n, cap |-> c, series |-> ser]

\* The job-based seeder at the declaration of its WaitGroup and the make of
\* its job channel.
JobStart(c) ==
    /\ jcfg = c
    /\ jprod = [pc |-> "spawn", t |-> 0, i |-> 0]
    /\ jobChan = [buf |-> <<>>, closed |-> FALSE]
    /\ jwg = 0
    /\ jwork = [w \in 1..c.maxWorkers |-> [pc |-> "off", job |-> <<>>, k |-> 0, ok |-> 0]]
    /\ jsent = <<>>
    /\ jdone = EmptyBag
    /\ jwrites = [tickers |-> 0, first |-> -1]

\* The job-based seeder is not run.
JobOff == JobStart(JobConfig(1, 0, 1, <<>>))

\* A Server that New has made, before n calls of Start.
NewServer(n) ==
    /\ spc = "new"
    /\ scall = 0
    /\ listener = [c \in 1..n |-> [pc |-> "off", err |-> "nil"]]
    /\ serverErrors = [c \in 1..n |-> <<>>]
    /\ shutdownCh = <<>>
    /\ ctxDone = FALSE
    /\ httpd = [state |-> "new", inflight |-> 0]
    /\ clock = 0
    /\ sret = "none"
    /\ shist = [trig |-> "", got |-> "nil", grace |-> -1]

\* No Server is made.
ServerOff == NewServer(0)

\* A goroutine that is in no function of the package.
NoLogCall ==
    [pc |-> "idle", op |-> "", cfg |-> "", seen |-> "nil", ret |-> "none",
     synced |-> FALSE]

\* The package logger at the start of the process, with n goroutines.
NewLogger(n) ==
    /\ instance = "nil"
    /\ initErr = "nil"
    /\ once = [done |-> FALSE, holder |-> 0]
    /\ lcaller = [c \in 1..n |-> NoLogCall]
    /\ lcalls = 0
    /\ builds = <<>>

\* The package logger is not used.
LoggerOff == NewLogger(0)

\* The nil error, and the nil ticker.
NoError == <<>>

NoTicker == "nil"

\* A tickerService that has made n calls of GetTicker.
NewService(n) ==
    /\ tpc = "idle"
    /\ tsym = ""
    /\ trepo = [ticker |-> NoTicker, err |-> NoError]
    /\ trepoCalls = <<>>
    /\ tret = [ticker |-> NoTicker, err |-> NoError]
    /\ tcalls = n

\* The service is not run.
ServiceOff == NewService(0)

\* A tickerRepository over a table that Scan returns in the pages p.
NewRepository(p) ==
    /\ rpages = p
    /\ rpc = "idle"
    /\ rtickers = <<>>
    /\ rkey = 0
    /\ rresult = [Items |-> <<>>, LastEvaluatedKey |-> 0]
    /\ rscans = <<>>
    /\ rret = [tickers |-> <<>>, err |-> NoError]

\* The repository is not run.
RepoOff == NewRepository(<<>>)

\* The zero value of models.DailySummary.
ZeroSummary ==
    [Ticker |-> "", Close |-> 0, High |-> 0, Low |-> 0, Open |-> 0, Volume |-> 0,
     Timestamp |-> 0, TransactionCount |-> 0, OTC |-> FALSE, VWAP |-> 0]

\* Validate is to be called on the DailySummary b.
ValidateOn(b) ==
    /\ vbar = b
    /\ vres = "none"

\* Validate is not called.
ValidOff == ValidateOn(ZeroSummary)

\* generateDailySummaryData is called with the ticker t and the dates from
\* and to.
SummaryCall(t, from, to) ==
    /\ dpc = "call"
    /\ dticker = t
    /\ dday = from
    /\ dend = to
    /\ dprice = 0
    /\ ddata = <<>>

\* generateDailySummaryData is not called.
SummaryOff == SummaryCall("", 0, 0)

\* The service, the repository and the models are not run.
TailOff == ServiceOff /\ RepoOff /\ ValidOff /\ SummaryOff

\* The parts of the API server modelled apart are not run.
MoreOff == ServerOff /\ LoggerOff /\ TailOff

\* The API server, its test doubles and the job-based seeder are not run.
SideOff == HandlerOff /\ MockOff /\ JobOff /\ MoreOff

\* The state at main's call of populateTable.
InitWith(c) ==
    /\ InitPipeline(c)
    /\ ppc = "spawn"
    /\ MainAtPopulate(c)
    /\ GenOff
    /\ SideOff

Init == \E c \in Configs : InitWith(c)

\* ---------------------------------------------------------------- producer
\* populateTable: for i := 0; i < numWorkers; i++ { wg.Add(1); go func(...) }
Spawn ==
    /\ ppc = "spawn"
    /\ spawned < cfg.numWorkers
    /\ spawned' = spawned + 1
    /\ wg' = wg + 1
    /\ wpc' = [wpc EXCEPT ![spawned + 1] = "recv"]
    /\ UNCHANGED mainVars
    /\ UNCHANGED genVars
    /\ UNCHANGED sideVars
    /\ UNCHANGED <<cfg, ppc, ti, di, item, itemChan, closed, mu, totalItems,
                   batch, batchCount, workerItems, final, attempt, err, reg,
                   summary, result>>
    /\ UNCHANGED histVars

\* populateTable: the worker loop ends; for _, ticker := range tickers begins
SpawnDone ==
    /\ ppc = "spawn"
    /\ spawned = cfg.numWorkers
    /\ ppc' = "gen"
    /\ UNCHANGED mainVars
    /\ UNCHANGED genVars
    /\ UNCHANGED sideVars
    /\ UNCHANGED <<cfg, spawned, ti, di, item, itemChan, closed, wg, mu,
                   totalItems, summary, result>>
    /\ UNCHANGED workVars
    /\ UNCHANGED histVars

\* populateTable: item := generateDailyData(ticker, date, currentPrice, r),
\* or the end of a ticker's loop, or the end of the loop over the tickers
Generate ==
    /\ ppc = "gen"
    /\ IF ti > Len(cfg.tickers)
         THEN /\ ppc' = "close"
              /\ UNCHANGED <<ti, di, item>>
         ELSE IF di >= cfg.totalDays
           THEN /\ ti' = ti + 1
                /\ di' = 0
                /\ UNCHANGED <<ppc, item>>
           ELSE /\ item' = [ticker |-> cfg.tickers[ti], seq |-> di]
                /\ ppc' = "send"
                /\ UNCHANGED <<ti, di>>
    /\ UNCHANGED mainVars
    /\ UNCHANGED genVars
    /\ UNCHANGED sideVars
    /\ UNCHANGED <<cfg, spawned, itemChan, closed, wg, mu, totalItems,
                   summary, result>>
    /\ UNCHANGED workVars
    /\ UNCHANGED histVars

\* Send that does not block on a full buffer.
SendNoBlock ==
    /\ ppc = "send"
    /\ itemChan' = Append(itemChan, item)
    /\ item' = NoItem
    /\ di' = di + 1
    /\ ppc' = "gen"
    /\ UNCHANGED mainVars
    /\ UNCHANGED genVars
    /\ UNCHANGED sideVars
    /\ UNCHANGED <<cfg, spawned, ti, closed, wg, mu, totalItems, summary, result>>
    /\ UNCHANGED workVars
    /\ UNCHANGED histVars

\* populateTable: itemChan <- item, which blocks while the buffer is full;
\* then currentPrice = item.Close; dayOffset++; i++
Send ==
    /\ ppc = "send"
    /\ Len(itemChan) < cfg.cap
    /\ itemChan' = Append(itemChan, item)
    /\ item' = NoItem
    /\ di' = di + 1
    /\ ppc' = "gen"
    /\ UNCHANGED mainVars
    /\ UNCHANGED genVars
    /\ UNCHANGED sideVars
    /\ UNCHANGED <<cfg, spawned, ti, closed, wg, mu, totalItems, summary, result>>
    /\ UNCHANGED workVars
    /\ UNCHANGED histVars

\* populateTable without close(itemChan).
CloseOmitted ==
    /\ ppc = "close"
    /\ ppc' = "wait"
    /\ UNCHANGED mainVars
    /\ UNCHANGED genVars
    /\ UNCHANGED sideVars
    /\ UNCHANGED <<cfg, spawned, ti, di, item, itemChan, closed, wg, mu,
                   totalItems, summary, result>>
    /\ UNCHANGED workVars
    /\ UNCHANGED histVars

\* populateTable: close(itemChan)
Close ==
    /\ ppc = "close"
    /\ closed' = TRUE
    /\ ppc' = "wait"
    /\ UNCHANGED mainVars
    /\ UNCHANGED genVars
    /\ UNCHANGED sideVars
    /\ UNCHANGED <<cfg, spawned, ti, di, item, itemChan, wg, mu, totalItems,
                   summary, result>>
    /\ UNCHANGED workVars
    /\ UNCHANGED histVars

\* populateTable without wg.Wait().
WaitSkipped ==
    /\ ppc = "wait"
    /\ ppc' = "summary"
    /\ UNCHANGED mainVars
    /\ UNCHANGED genVars
    /\ UNCHANGED sideVars
    /\ UNCHANGED <<cfg, spawned, ti, di, item, itemChan, closed, wg, mu,
                   totalItems, summary, result>>
    /\ UNCHANGED workVars
    /\ UNCHANGED histVars

\* populateTable: wg.Wait(), which returns when the counter is zero
Wait ==
    /\ ppc = "wait"
    /\ wg = 0
    /\ ppc' = "summary"
    /\ UNCHANGED mainVars
    /\ UNCHANGED genVars
    /\ UNCHANGED sideVars
    /\ UNCHANGED <<cfg, spawned, ti, di, item, itemChan, closed, wg, mu,
                   totalItems, summary, result>>
    /\ UNCHANGED workVars
    /\ UNCHANGED histVars

\* populateTable: the performance summary reads totalItems; return nil
Summary ==
    /\ ppc = "summary"
    /\ summary' = totalItems
    /\ result' = "nil"
    /\ ppc' = "done"
    /\ UNCHANGED mainVars
    /\ UNCHANGED genVars
    /\ UNCHANGED sideVars
    /\ UNCHANGED <<cfg, spawned, ti, di, item, itemChan, closed, wg, mu, totalItems>>
    /\ UNCHANGED workVars
    /\ UNCHANGED histVars

Producer == Spawn \/ SpawnDone \/ Generate \/ Send \/ Close \/ Wait \/ Summary

\* ---------------------------------------------------------------- worker
\* WaitTime as a constant one second.
WaitTimeFixed(a) == 1

\* processBatch: waitTime := time.Duration(1<<attempt) * time.Second, in seconds
WaitTime(a) == 2 ^ a

\* worker: processBatch(client, batch, workerID, batchCount) is entered with
\* the batch b. The marshalling loop fills writeRequests; when MarshalMap fails
\* for an item processBatch returns the error, else attempt := 0
EnterProcessBatch(w, b) ==
    /\ flushCount' = [x \in DOMAIN flushCount |->
                        IF x \in Range(b) THEN flushCount[x] + 1 ELSE flushCount[x]]
    /\ sizes' = [sizes EXCEPT ![w] = Append(@, Len(b))]
    /\ attempt' = [attempt EXCEPT ![w] = 0]
    /\ calls' = [calls EXCEPT ![w] = <<>>]
    /\ waits' = [waits EXCEPT ![w] = <<>>]
    /\ IF Range(b) \cap cfg.bad # {}
         THEN /\ err' = [err EXCEPT ![w] = "err"]
              /\ wpc' = [wpc EXCEPT ![w] = "ret"]
         ELSE /\ wpc' = [wpc EXCEPT ![w] = "write"]
              /\ UNCHANGED err

\* AfterFlush without batch = batch[:0].
AfterFlushKeep(w) ==
    /\ err' = [err EXCEPT ![w] = "none"]
    /\ calls' = [calls EXCEPT ![w] = <<>>]
    /\ waits' = [waits EXCEPT ![w] = <<>>]
    /\ IF final[w]
         THEN /\ wpc' = [wpc EXCEPT ![w] = "log"]
              /\ UNCHANGED <<batch, batchCount>>
         ELSE /\ wpc' = [wpc EXCEPT ![w] = "recv"]
              /\ batchCount' = [batchCount EXCEPT ![w] = @ + 1]
              /\ UNCHANGED batch

\* worker: the statements after a flush: batch = batch[:0]; batchCount++ in the
\* loop, the completion log line after the final flush
AfterFlush(w) ==
    /\ err' = [err EXCEPT ![w] = "none"]
    /\ calls' = [calls EXCEPT ![w] = <<>>]
    /\ waits' = [waits EXCEPT ![w] = <<>>]
    /\ IF final[w]
         THEN /\ wpc' = [wpc EXCEPT ![w] = "log"]
              /\ UNCHANGED <<batch, batchCount>>
         ELSE /\ wpc' = [wpc EXCEPT ![w] = "recv"]
              /\ batch' = [batch EXCEPT ![w] = <<>>]
              /\ batchCount' = [batchCount EXCEPT ![w] = @ + 1]

\* Recv with len(batch) > batchSize as the test for a full batch.
RecvLate(w) ==
    /\ wpc[w] = "recv"
    /\ Len(itemChan) > 0
    /\ itemChan' = Tail(itemChan)
    /\ batch' = [batch EXCEPT ![w] = Append(@, Head(itemChan))]
    /\ workerItems' = [workerItems EXCEPT ![w] = @ + 1]
    /\ IF Len(batch'[w]) > cfg.batchSize
         THEN EnterProcessBatch(w, batch'[w])
         ELSE UNCHANGED <<flushCount, sizes, attempt, calls, waits, wpc, err>>
    /\ UNCHANGED mainVars
    /\ UNCHANGED genVars
    /\ UNCHANGED sideVars
    /\ UNCHANGED <<cfg, closed, wg, mu, totalItems, batchCount, final, reg>>
    /\ UNCHANGED prodVars
    /\ UNCHANGED <<okCalls, okItems, anyFail, counted, adds, dropped, logged>>

\* Recv that waits while another worker is in its retry backoff.
RecvUnlessBackoff(w) ==
    /\ wpc[w] = "recv"
    /\ \A v \in Workers : wpc[v] # "sleep"
    /\ Len(itemChan) > 0
    /\ itemChan' = Tail(itemChan)
    /\ batch' = [batch EXCEPT ![w] = Append(@, Head(itemChan))]
    /\ workerItems' = [workerItems EXCEPT ![w] = @ + 1]
    /\ IF Len(batch'[w]) >= cfg.batchSize
         THEN EnterProcessBatch(w, batch'[w])
         ELSE UNCHANGED <<flushCount, sizes, attempt, calls, waits, wpc, err>>
    /\ UNCHANGED mainVars
    /\ UNCHANGED genVars
    /\ UNCHANGED sideVars
    /\ UNCHANGED <<cfg, closed, wg, mu, totalItems, batchCount, final, reg>>
    /\ UNCHANGED prodVars
    /\ UNCHANGED <<okCalls, okItems, anyFail, counted, adds, dropped, logged>>

\* Recv that puts the received item at the front of the batch.
RecvPrepend(w) ==
    /\ wpc[w] = "recv"
    /\ Len(itemChan) > 0
    /\ itemChan' = Tail(itemChan)
    /\ batch' = [batch EXCEPT ![w] = <<Head(itemChan)>> \o @]
    /\ workerItems' = [workerItems EXCEPT ![w] = @ + 1]
    /\ IF Len(batch'[w]) >= cfg.batchSize
         THEN EnterProcessBatch(w, batch'[w])
         ELSE UNCHANGED <<flushCount, sizes, attempt, calls, waits, wpc, err>>
    /\ UNCHANGED mainVars
    /\ UNCHANGED genVars
    /\ UNCHANGED sideVars
    /\ UNCHANGED <<cfg, closed, wg, mu, totalItems, batchCount, final, reg>>
    /\ UNCHANGED prodVars
    /\ UNCHANGED <<okCalls, okItems, anyFail, counted, adds, dropped, logged>>

\* worker: for item := range itemChan receives an item; batch = append(batch, item);
\* workerItems++; if len(batch) >= batchSize the batch is flushed
Recv(w) ==
    /\ wpc[w] = "recv"
    /\ Len(itemChan) > 0
    /\ itemChan' = Tail(itemChan)
    /\ batch' = [batch EXCEPT ![w] = Append(@, Head(itemChan))]
    /\ workerItems' = [workerItems EXCEPT ![w] = @ + 1]
    /\ IF Len(batch'[w]) >= cfg.batchSize
         THEN EnterProcessBatch(w, batch'[w])
         ELSE UNCHANGED <<flushCount, sizes, attempt, calls, waits, wpc, err>>
    /\ UNCHANGED mainVars
    /\ UNCHANGED genVars
    /\ UNCHANGED sideVars
    /\ UNCHANGED <<cfg, closed, wg, mu, totalItems, batchCount, final, reg>>
    /\ UNCHANGED prodVars
    /\ UNCHANGED <<okCalls, okItems, anyFail, counted, adds, dropped, logged>>

\* RangeEnd without the flush of the remaining items.
RangeEndNoFlush(w) ==
    /\ wpc[w] = "recv"
    /\ Len(itemChan) = 0
    /\ closed
    /\ final' = [final EXCEPT ![w] = TRUE]
    /\ wpc' = [wpc EXCEPT ![w] = "log"]
    /\ UNCHANGED mainVars
    /\ UNCHANGED genVars
    /\ UNCHANGED sideVars
    /\ UNCHANGED <<cfg, itemChan, closed, wg, mu, totalItems, batch, batchCount,
                   workerItems, attempt, err, reg>>
    /\ UNCHANGED prodVars
    /\ UNCHANGED histVars

\* RangeEnd that takes the closed channel for exhausted while items are buffered.
RangeEndEarly(w) ==
    /\ wpc[w] = "recv"
    /\ closed
    /\ final' = [final EXCEPT ![w] = TRUE]
    /\ IF Len(batch[w]) > 0
         THEN EnterProcessBatch(w, batch[w])
         ELSE /\ wpc' = [wpc EXCEPT ![w] = "log"]
              /\ UNCHANGED <<flushCount, sizes, attempt, calls, waits, err>>
    /\ UNCHANGED mainVars
    /\ UNCHANGED genVars
    /\ UNCHANGED sideVars
    /\ UNCHANGED <<cfg, itemChan, closed, wg, mu, totalItems, batch, batchCount,
                   workerItems, reg>>
    /\ UNCHANGED prodVars
    /\ UNCHANGED <<okCalls, okItems, anyFail, counted, adds, dropped, logged>>

\* worker: the range loop ends when the channel is closed and drained;
\* if len(batch) > 0 the remaining items are flushed
RangeEnd(w) ==
    /\ wpc[w] = "recv"
    /\ Len(itemChan) = 0
    /\ closed
    /\ final' = [final EXCEPT ![w] = TRUE]
    /\ IF Len(batch[w]) > 0
         THEN EnterProcessBatch(w, batch[w])
         ELSE /\ wpc' = [wpc EXCEPT ![w] = "log"]
              /\ UNCHANGED <<flushCount, sizes, attempt, calls, waits, err>>
    /\ UNCHANGED mainVars
    /\ UNCHANGED genVars
    /\ UNCHANGED sideVars
    /\ UNCHANGED <<cfg, itemChan, closed, wg, mu, totalItems, batch, batchCount,
                   workerItems, reg>>
    /\ UNCHANGED prodVars
    /\ UNCHANGED <<okCalls, okItems, anyFail, counted, adds, dropped, logged>>

\* WriteOk without the return nil: the loop goes on to its next attempt.
WriteOkNoReturn(w) ==
    /\ wpc[w] = "write"
    /\ okCalls' = okCalls + 1
    /\ okItems' = okItems + Len(batch[w])
    /\ calls' = [calls EXCEPT ![w] = Append(@, "ok")]
    /\ UNCHANGED waits
    /\ IF attempt[w] = maxRetries - 1
         THEN /\ err' = [err EXCEPT ![w] = "nil"]
              /\ wpc' = [wpc EXCEPT ![w] = "ret"]
              /\ UNCHANGED attempt
         ELSE /\ attempt' = [attempt EXCEPT ![w] = @ + 1]
              /\ UNCHANGED <<err, wpc>>
    /\ UNCHANGED mainVars
    /\ UNCHANGED genVars
    /\ UNCHANGED sideVars
    /\ UNCHANGED <<cfg, itemChan, closed, wg, mu, totalItems, batch, batchCount,
                   workerItems, final, reg>>
    /\ UNCHANGED prodVars
    /\ UNCHANGED <<flushCount, sizes, anyFail, counted, adds, dropped, logged>>

\* processBatch: client.BatchWriteItem returns err == nil; return nil
WriteOk(w) ==
    /\ wpc[w] = "write"
    /\ okCalls' = okCalls + 1
    /\ okItems' = okItems + Len(batch[w])
    /\ calls' = [calls EXCEPT ![w] = Append(@, "ok")]
    /\ UNCHANGED waits
    /\ err' = [err EXCEPT ![w] = "nil"]
    /\ wpc' = [wpc EXCEPT ![w] = "ret"]
    /\ UNCHANGED mainVars
    /\ UNCHANGED genVars
    /\ UNCHANGED sideVars
    /\ UNCHANGED <<cfg, itemChan, closed, wg, mu, totalItems, batch, batchCount,
                   workerItems, final, attempt, reg>>
    /\ UNCHANGED prodVars
    /\ UNCHANGED <<flushCount, sizes, anyFail, counted, adds, dropped, logged>>

\* WriteFail with attempt == maxRetries as the test for the last attempt.
WriteFailOffByOne(w) ==
    /\ wpc[w] = "write"
    /\ anyFail' = TRUE
    /\ calls' = [calls EXCEPT ![w] = Append(@, "fail")]
    /\ IF attempt[w] = maxRetries
         THEN /\ err' = [err EXCEPT ![w] = "err"]
              /\ wpc' = [wpc EXCEPT ![w] = "ret"]
              /\ UNCHANGED waits
         ELSE /\ wpc' = [wpc EXCEPT ![w] = "sleep"]
              /\ waits' = [waits EXCEPT ![w] = Append(@, WaitTime(attempt[w]))]
              /\ UNCHANGED err
    /\ UNCHANGED mainVars
    /\ UNCHANGED genVars
    /\ UNCHANGED sideVars
    /\ UNCHANGED <<cfg, itemChan, closed, wg, mu, totalItems, batch, batchCount,
                   workerItems, final, attempt, reg>>
    /\ UNCHANGED prodVars
    /\ UNCHANGED <<flushCount, sizes, okCalls, okItems, counted, adds, dropped,
                   logged>>

\* processBatch: client.BatchWriteItem returns an error. On the last attempt
\* (attempt == maxRetries-1) processBatch returns the error; otherwise it
\* computes waitTime and sleeps before the next attempt
WriteFail(w) ==
    /\ wpc[w] = "write"
    /\ anyFail' = TRUE
    /\ calls' = [calls EXCEPT ![w] = Append(@, "fail")]
    /\ IF attempt[w] = maxRetries - 1
         THEN /\ err' = [err EXCEPT ![w] = "err"]
              /\ wpc' = [wpc EXCEPT ![w] = "ret"]
              /\ UNCHANGED waits
         ELSE /\ wpc' = [wpc EXCEPT ![w] = "sleep"]
              /\ waits' = [waits EXCEPT ![w] = Append(@, WaitTime(attempt[w]))]
              /\ UNCHANGED err
    /\ UNCHANGED mainVars
    /\ UNCHANGED genVars
    /\ UNCHANGED sideVars
    /\ UNCHANGED <<cfg, itemChan, closed, wg, mu, totalItems, batch, batchCount,
                   workerItems, final, attempt, reg>>
    /\ UNCHANGED prodVars
    /\ UNCHANGED <<flushCount, sizes, okCalls, okItems, counted, adds, dropped,
                   logged>>

\* processBatch: time.Sleep(waitTime) returns; attempt++; attempt < maxRetries
\* (the return nil after the loop when it is not)
Sleep(w) ==
    /\ wpc[w] = "sleep"
    /\ attempt' = [attempt EXCEPT ![w] = @ + 1]
    /\ IF attempt'[w] < maxRetries
         THEN /\ wpc' = [wpc EXCEPT ![w] = "write"]
              /\ UNCHANGED err
         ELSE /\ err' = [err EXCEPT ![w] = "nil"]
              /\ wpc' = [wpc EXCEPT ![w] = "ret"]
    /\ UNCHANGED mainVars
    /\ UNCHANGED genVars
    /\ UNCHANGED sideVars
    /\ UNCHANGED <<cfg, itemChan, closed, wg, mu, totalItems, batch, batchCount,
                   workerItems, final, reg>>
    /\ UNCHANGED prodVars
    /\ UNCHANGED histVars

\* worker: if err := processBatch(...); err != nil { log.Printf(...) }, after
\* which the worker goes on; else the counter is updated
Ret(w) ==
    /\ wpc[w] = "ret"
    /\ IF err[w] = "err"
         THEN /\ dropped' = dropped + Len(batch[w])
              /\ AfterFlush(w)
         ELSE /\ wpc' = [wpc EXCEPT ![w] = "lock"]
              /\ UNCHANGED <<dropped, err, calls, waits, batch, batchCount>>
    /\ UNCHANGED mainVars
    /\ UNCHANGED genVars
    /\ UNCHANGED sideVars
    /\ UNCHANGED <<cfg, itemChan, closed, wg, mu, totalItems, workerItems,
                   final, attempt, reg>>
    /\ UNCHANGED prodVars
    /\ UNCHANGED <<flushCount, sizes, okCalls, okItems, anyFail, counted, adds,
                   logged>>

\* Lock that does not wait for the mutex to be free.
LockNoWait(w) ==
    /\ wpc[w] = "lock"
    /\ mu' = w
    /\ wpc' = [wpc EXCEPT ![w] = "load"]
    /\ UNCHANGED mainVars
    /\ UNCHANGED genVars
    /\ UNCHANGED sideVars
    /\ UNCHANGED <<cfg, itemChan, closed, wg, totalItems, batch, batchCount,
                   workerItems, final, attempt, err, reg>>
    /\ UNCHANGED prodVars
    /\ UNCHANGED histVars

\* worker: mu.Lock(), which blocks while another worker holds the mutex
Lock(w) ==
    /\ wpc[w] = "lock"
    /\ mu = 0
    /\ mu' = w
    /\ wpc' = [wpc EXCEPT ![w] = "load"]
    /\ UNCHANGED mainVars
    /\ UNCHANGED genVars
    /\ UNCHANGED sideVars
    /\ UNCHANGED <<cfg, itemChan, closed, wg, totalItems, batch, batchCount,
                   workerItems, final, attempt, err, reg>>
    /\ UNCHANGED prodVars
    /\ UNCHANGED histVars

\* worker: *totalItems += len(batch), the read of *totalItems
Load(w) ==
    /\ wpc[w] = "load"
    /\ reg' = [reg EXCEPT ![w] = totalItems]
    /\ wpc' = [wpc EXCEPT ![w] = "store"]
    /\ UNCHANGED mainVars
    /\ UNCHANGED genVars
    /\ UNCHANGED sideVars
    /\ UNCHANGED <<cfg, itemChan, closed, wg, mu, totalItems, batch, batchCount,
                   workerItems, final, attempt, err>>
    /\ UNCHANGED prodVars
    /\ UNCHANGED histVars

\* worker: *totalItems += len(batch), the write of the sum
Store(w) ==
    /\ wpc[w] = "store"
    /\ totalItems' = reg[w] + Len(batch[w])
    /\ reg' = [reg EXCEPT ![w] = 0]
    /\ counted' = counted + Len(batch[w])
    /\ adds' = adds + 1
    /\ wpc' = [wpc EXCEPT ![w] = "unlock"]
    /\ UNCHANGED mainVars
    /\ UNCHANGED genVars
    /\ UNCHANGED sideVars
    /\ UNCHANGED <<cfg, itemChan, closed, wg, mu, batch, batchCount,
                   workerItems, final, attempt, err>>
    /\ UNCHANGED prodVars
    /\ UNCHANGED <<flushCount, sizes, calls, waits, okCalls, okItems, anyFail, dropped,
                   logged>>

\* worker: mu.Unlock(), then the statements after the flush
Unlock(w) ==
    /\ wpc[w] = "unlock"
    /\ mu' = 0
    /\ AfterFlush(w)
    /\ UNCHANGED mainVars
    /\ UNCHANGED genVars
    /\ UNCHANGED sideVars
    /\ UNCHANGED <<cfg, itemChan, closed, wg, totalItems, workerItems, final,
                   attempt, reg>>
    /\ UNCHANGED prodVars
    /\ UNCHANGED <<flushCount, sizes, okCalls, okItems, anyFail, counted, adds,
                   dropped, logged>>

\* Return without the deferred wg.Done().
ReturnNoDone(w) ==
    /\ wpc[w] = "log"
    /\ logged' = [logged EXCEPT ![w] = batchCount[w] + 1]
    /\ wpc' = [wpc EXCEPT ![w] = "done"]
    /\ UNCHANGED mainVars
    /\ UNCHANGED genVars
    /\ UNCHANGED sideVars
    /\ UNCHANGED <<cfg, itemChan, closed, wg, mu, totalItems, batch, batchCount,
                   workerItems, final, attempt, err, reg>>
    /\ UNCHANGED prodVars
    /\ UNCHANGED <<flushCount, sizes, calls, waits, okCalls, okItems, anyFail, counted,
                   adds, dropped>>

\* worker: the completion log line (batchCount+1 batches); the deferred wg.Done()
Return(w) ==
    /\ wpc[w] = "log"
    /\ logged' = [logged EXCEPT ![w] = batchCount[w] + 1]
    /\ wg' = wg - 1
    /\ wpc' = [wpc EXCEPT ![w] = "done"]
    /\ UNCHANGED mainVars
    /\ UNCHANGED genVars
    /\ UNCHANGED sideVars
    /\ UNCHANGED <<cfg, itemChan, closed, mu, totalItems, batch, batchCount,
                   workerItems, final, attempt, err, reg>>
    /\ UNCHANGED prodVars
    /\ UNCHANGED <<flushCount, sizes, calls, waits, okCalls, okItems, anyFail, counted,
                   adds, dropped>>

Worker(w) ==
    \/ Recv(w) \/ RangeEnd(w) \/ WriteOk(w) \/ WriteFail(w) \/ Sleep(w) \/ Ret(w)
    \/ Lock(w) \/ Load(w) \/ Store(w) \/ Unlock(w) \/ Return(w)

\* The phase of the pipeline, from the statement populateTable is at: Idle
\* while the workers are started, Streaming while items are generated and
\* sent, Draining from close(itemChan) until wg.Wait() returns, then Completed.
Phase ==
    CASE ppc \in {"nostart", "spawn"} -> "Idle"
      [] ppc \in {"gen", "send", "close"} -> "Streaming"
      [] ppc = "wait" -> "Draining"
      [] ppc \in {"summary", "done"} -> "Completed"

\* ---------------------------------------------------------------- specification
Next == Producer \/ \E w \in Workers : Worker(w)

Spec == Init /\ [][Next]_vars

\* Scenario A: 1 symbol, 10 trading days, batch size 4, 2 workers.
ScenarioA == Config(4, 2, <<"TEST">>, 10, ChanCap(4, 2))

InitA == InitWith(ScenarioA)

SpecA == InitA /\ [][Next]_vars

\* The configurations of the backpressure property: any capacity from 1 up to
\* one less than the number of items.
ConfigsCap ==
    UNION { { Config(s[1], s[2], tickers, s[3], c) :
                c \in 1..(Len(tickers) * s[3] - 1) } : s \in Sizes }

InitCap == \E c \in ConfigsCap : InitWith(c)

SpecCap == InitCap /\ [][Next]_vars

\* ---------------------------------------------------------------- main
\* log.Fatalf: the process exits with status 1
Fatalf ==
    /\ exitCode' = 1
    /\ mpc' = "exit"

\* main: cfg, err := config.LoadDefaultConfig(...); Fatalf when it fails
LoadConfig ==
    /\ mpc = "config"
    /\ \E ok \in BOOLEAN :
         IF ok
           THEN /\ mpc' = "describe"
                /\ UNCHANGED <<exitCode, setupFailed>>
           ELSE /\ Fatalf
                /\ setupFailed' = TRUE
    /\ UNCHANGED <<tbl, tki, ppc>>
    /\ UNCHANGED restVars
    /\ UNCHANGED genVars
    /\ UNCHANGED sideVars

\* ensureTableExists returned nil: main calls it for the next table, or calls
\* populateTable
EnsureReturn ==
    /\ IF tbl < Len(Tables(cfg.prog))
         THEN /\ tbl' = tbl + 1
              /\ mpc' = "describe"
              /\ UNCHANGED ppc
         ELSE /\ mpc' = "populate"
              /\ ppc' = "spawn"
              /\ UNCHANGED tbl

\* ensureTableExists: client.DescribeTable; return nil when the table exists
DescribeTable ==
    /\ mpc = "describe"
    /\ \E exists \in BOOLEAN :
         IF exists
           THEN EnsureReturn
           ELSE /\ mpc' = "create"
                /\ UNCHANGED <<tbl, ppc>>
    /\ UNCHANGED <<tki, exitCode, setupFailed>>
    /\ UNCHANGED restVars
    /\ UNCHANGED genVars
    /\ UNCHANGED sideVars

\* CreateTable whose error is logged and main goes on.
CreateTableLogOnly ==
    /\ mpc = "create"
    /\ \E ok \in BOOLEAN :
         /\ mpc' = "waitActive"
         /\ setupFailed' = (~ok)
         /\ UNCHANGED exitCode
    /\ UNCHANGED <<tbl, tki, ppc>>
    /\ UNCHANGED restVars
    /\ UNCHANGED genVars
    /\ UNCHANGED sideVars

\* ensureTableExists: client.CreateTable; its error is returned and main exits
CreateTable ==
    /\ mpc = "create"
    /\ \E ok \in BOOLEAN :
         IF ok
           THEN /\ mpc' = "waitActive"
                /\ UNCHANGED <<exitCode, setupFailed>>
           ELSE /\ Fatalf
                /\ setupFailed' = TRUE
    /\ UNCHANGED <<tbl, tki, ppc>>
    /\ UNCHANGED restVars
    /\ UNCHANGED genVars
    /\ UNCHANGED sideVars

\* ensureTableExists: waiter.Wait; its error is returned and main exits
WaitActive ==
    /\ mpc = "waitActive"
    /\ \E ok \in BOOLEAN :
         IF ok
           THEN /\ EnsureReturn
                /\ UNCHANGED <<exitCode, setupFailed>>
           ELSE /\ Fatalf
                /\ setupFailed' = TRUE
                /\ UNCHANGED <<tbl, ppc>>
    /\ UNCHANGED tki
    /\ UNCHANGED restVars
    /\ UNCHANGED genVars
    /\ UNCHANGED sideVars

\* main: populateTable has returned nil. The program of part_004 logs the
\* success and exits; the program of seed_db.go calls populateTickerTable
PopulateReturn ==
    /\ mpc = "populate"
    /\ ppc = "done"
    /\ IF cfg.prog = "seed_db"
         THEN /\ mpc' = "tickers"
              /\ tki' = 1
              /\ UNCHANGED exitCode
         ELSE /\ mpc' = "exit"
              /\ exitCode' = 0
              /\ UNCHANGED tki
    /\ UNCHANGED <<tbl, setupFailed, ppc>>
    /\ UNCHANGED restVars
    /\ UNCHANGED genVars
    /\ UNCHANGED sideVars

\* populateTickerTable: client.PutItem for the ticker of the loop. Its error
\* is returned and main exits with Fatalf; after the last ticker main logs the
\* success and exits
PutTicker ==
    /\ mpc = "tickers"
    /\ \E ok \in BOOLEAN :
         IF ok
           THEN IF tki < Len(cfg.tickers)
                  THEN /\ tki' = tki + 1
                       /\ UNCHANGED <<mpc, exitCode>>
                  ELSE /\ mpc' = "exit"
                       /\ exitCode' = 0
                       /\ UNCHANGED tki
           ELSE /\ Fatalf
                /\ UNCHANGED tki
    /\ UNCHANGED <<tbl, setupFailed, ppc>>
    /\ UNCHANGED restVars
    /\ UNCHANGED genVars
    /\ UNCHANGED sideVars

Main == LoadConfig \/ DescribeTable \/ CreateTable \/ WaitActive \/ PopulateReturn
          \/ PutTicker

\* The two programs, each with every configuration.
ConfigsMain ==
    { [c EXCEPT !.prog = p] : c \in Configs, p \in {"part_004", "seed_db"} }

\* The state at the start of main.
InitMain ==
    \E c \in ConfigsMain :
        /\ InitPipeline(c)
        /\ ppc = "nostart"
        /\ mpc = "config"
        /\ tbl = 1
        /\ tki = 0
        /\ exitCode = -1
        /\ setupFailed = FALSE
        /\ GenOff
        /\ SideOff

NextMain == Main \/ Next

SpecMain == InitMain /\ [][NextMain]_vars

\* ---------------------------------------------------------------- generateDailyData
\* Prices are in cents, factors and percentages in units of 1/10000, a
\* Float32() of the random source in hundredths (0..99), volumes in thousands.

\* The float32 product and quotient, rounded to the nearest unit.
Round(n, d) == (n + d \div 2) \div d

\* p * f for the factor f
Mul(p, f) == Round(p * f, 10000)

max(a, b) == IF a > b THEN a ELSE b

min(a, b) == IF a < b THEN a ELSE b

abs(x) == IF x < 0 THEN -x ELSE x

\* getBasePrice(ticker)
getBasePrice(ticker) ==
    CASE ticker = "AAPL" -> 17500
      [] ticker = "GOOGL" -> 14000
      [] ticker = "MSFT" -> 38000
      [] ticker = "TSLA" -> 24000
      [] ticker = "AMZN" -> 15500
      [] ticker = "NVDA" -> 85000
      [] ticker = "META" -> 48500
      [] ticker = "JPM" -> 19500
      [] ticker = "JNJ" -> 15500
      [] ticker = "UNH" -> 52000
      [] ticker = "PFE" -> 2800
      [] ticker = "ABBV" -> 16500
      [] ticker = "BAC" -> 3700
      [] ticker = "HD" -> 38000
      [] ticker = "PG" -> 15500
      [] OTHER -> 10000

\* DailyChange without the - 0.5.
DailyChangeNoCentre(u) == u * 10

\* dailyChange := (r.Float32()-0.5) * 0.1
DailyChange(u) == (u - 50) * 10

\* trend := r.Float32() * 0.02
Trend(u) == u * 2

\* volatility := r.Float32() * 0.03
Volatility(u) == u * 3

\* changePercent := dailyChange + trend + volatility
ChangePercent(u) == DailyChange(u[1]) + Trend(u[2]) + Volatility(u[3])

\* NewClose without the floor of 1.0.
NewCloseNoFloor(previousClose, changePercent) ==
    Mul(previousClose, 10000 + changePercent)

\* newClose := previousClose * (1 + changePercent); if newClose < 1.0 { newClose = 1.0 }
NewClose(previousClose, changePercent) ==
    LET newClose == Mul(previousClose, 10000 + changePercent)
    IN  IF newClose < 100 THEN 100 ELSE newClose

\* open := previousClose * (1 + (r.Float32()-0.5)*0.02)
OpenOf(previousClose, u) == Mul(previousClose, 10000 + (u - 50) * 2)

\* high := max(open, newClose) * (1 + r.Float32()*0.03)
HighOf(open, newClose, u) == Mul(max(open, newClose), 10000 + u * 3)

\* LowOf with 1 + r.Float32()*0.03 as the factor.
LowOfPlus(open, newClose, u) == Mul(min(open, newClose), 10000 + u * 3)

\* low := min(open, newClose) * (1 - r.Float32()*0.03)
LowOf(open, newClose, u) == Mul(min(open, newClose), 10000 - u * 3)

\* volumeMultiplier := 1.0 + abs(changePercent)*10;
\* baseVolume := float32(1000000 + r.Intn(9000000)); volume := baseVolume * volumeMultiplier
VolumeOf(changePercent, u) ==
    Mul(1000 + u * 90, 10000 + abs(changePercent) * 10)

\* date.Unix(), for the day number date
Unix(date) == date * 86400

\* generateDailyData(ticker, date, previousClose, r), where u holds the values
\* the random source returns, in the order of the calls
generateDailyData(ticker, date, previousClose, u) ==
    LET changePercent == ChangePercent(u)
        newClose == NewClose(previousClose, changePercent)
        open == OpenOf(previousClose, u[4])
        high == HighOf(open, newClose, u[5])
        low == LowOf(open, newClose, u[6])
    IN  [ticker |-> ticker,
         close |-> newClose,
         high |-> high,
         low |-> low,
         open |-> open,
         volume |-> VolumeOf(changePercent, u[7]),
         timestamp |-> Unix(date),
         transactionCount |-> 10000 + u[8] * 900,
         otc |-> u[9] < 1,
         vwap |-> Round(open + high + low + newClose, 4)]

\* The values of previousClose generateDailyData is applied to: 0.01, 0.50,
\* 1.00, 28.00, 100.00 and 850.00.
PrevCloses == {1, 50, 100, 2800, 10000, 85000}

\* The values of a Float32() of the random source: its least, its middle and
\* its greatest.
DrawValues == {0, 50, 99}

\* A call of generateDailyData with any previousClose and any draws.
InitBar ==
    /\ InitPipeline(Config(1, 1, <<"TEST">>, 1, 1))
    /\ ppc = "spawn"
    /\ MainAtPopulate(Config(1, 1, <<"TEST">>, 1, 1))
    /\ gpc = "call"
    /\ now = 0
    /\ startDate = 0
    /\ rnd = 0
    /\ gt = 1
    /\ gi = 0
    /\ dayOffset = 0
    /\ currentPrice \in PrevCloses
    /\ draws \in [1..9 -> DrawValues]
    /\ bar = NoBar
    /\ emitted = <<>>
    /\ args = <<>>
    /\ run = 1
    /\ emitted1 = <<>>
    /\ SideOff

\* item := generateDailyData(ticker, date, currentPrice, r)
ApplyGenerate ==
    /\ gpc = "call"
    /\ bar' = generateDailyData(cfg.tickers[gt], startDate + dayOffset, currentPrice, draws)
    /\ gpc' = "returned"
    /\ UNCHANGED <<now, startDate, rnd, gt, gi, dayOffset, currentPrice, draws,
                   emitted, args, run, emitted1>>
    /\ UNCHANGED <<ppc, restVars, mainVars>>
    /\ UNCHANGED sideVars

NextBar == ApplyGenerate

SpecBar == InitBar /\ [][NextBar]_vars

\* ---------------------------------------------------------------- the generation loop
\* rand.NewSource(42)
Seed == 42

\* The random source: the state that follows the state s. Its Float32() is
\* the state modulo 100, in hundredths.
RandNext(s) == (s * 37 + 11) % 101

\* The n states of the random source that follow s, in order.
RECURSIVE RandSeq(_, _)
RandSeq(s, n) == IF n = 0 THEN <<>> ELSE <<RandNext(s)>> \o RandSeq(RandNext(s), n - 1)

\* The nine values generateDailyData draws from the random source in state s.
Draws(s) == [k \in 1..9 |-> RandSeq(s, 9)[k] % 100]

\* The days, counted from 1 January 1970, on which the program is run: a
\* week of days.
Nows == 1826..1832

\* startDate := time.Now().AddDate(-5, 0, 0)
StartDate(n) == n - 1826

\* date.Weekday(): 0 is Sunday, 6 is Saturday; 1 January 1970 is a Thursday
Weekday(date) == (date + 4) % 7

\* IsWeekend that tests for Saturday only.
IsSaturdayOnly(date) == Weekday(date) = 6

\* date.Weekday() == time.Saturday || date.Weekday() == time.Sunday
IsWeekend(date) == Weekday(date) = 6 \/ Weekday(date) = 0

\* The generation loop runs with totalDays up to
MaxGenDays == 6

\* The ticker lists the generation loop runs with.
TickerLists == { <<"AAPL", "GOOGL">>, <<"PFE", "TEST">> }

ConfigsGen == { Config(1, 1, tk, d, 1) : tk \in TickerLists, d \in 1..MaxGenDays }

\* populateTable: r := rand.New(rand.NewSource(42)); startDate; the loop over
\* tickers begins
GenStart(n) ==
    /\ now = n
    /\ startDate = StartDate(n)
    /\ rnd = Seed
    /\ gt = 1
    /\ gi = 0
    /\ dayOffset = 0
    /\ currentPrice = 0
    /\ draws = <<>>
    /\ bar = NoBar
    /\ emitted = <<>>
    /\ args = <<>>
    /\ gpc = "ticker"

\* The first run of the program, on any day.
InitGen ==
    \E c \in ConfigsGen :
        /\ InitPipeline(c)
        /\ ppc = "spawn"
        /\ MainAtPopulate(c)
        /\ run = 1
        /\ emitted1 = <<>>
        /\ \E n \in Nows : GenStart(n)
        /\ SideOff

\* GenTicker without currentPrice := basePrice.
GenTickerNoReset ==
    /\ gpc = "ticker"
    /\ IF gt <= Len(cfg.tickers)
         THEN /\ currentPrice' = IF gt = 1 THEN getBasePrice(cfg.tickers[gt]) ELSE currentPrice
              /\ dayOffset' = 0
              /\ gi' = 0
              /\ gpc' = "day"
         ELSE /\ gpc' = "done"
              /\ UNCHANGED <<currentPrice, dayOffset, gi>>
    /\ UNCHANGED <<now, startDate, rnd, gt, draws, bar, emitted, args, run, emitted1>>
    /\ UNCHANGED <<ppc, restVars, mainVars>>
    /\ UNCHANGED sideVars

\* populateTable: for _, ticker := range tickers: basePrice := getBasePrice(ticker);
\* currentPrice := basePrice; dayOffset := 0; i := 0; after the last ticker the
\* loop ends
GenTicker ==
    /\ gpc = "ticker"
    /\ IF gt <= Len(cfg.tickers)
         THEN /\ currentPrice' = getBasePrice(cfg.tickers[gt])
              /\ dayOffset' = 0
              /\ gi' = 0
              /\ gpc' = "day"
         ELSE /\ gpc' = "done"
              /\ UNCHANGED <<currentPrice, dayOffset, gi>>
    /\ UNCHANGED <<now, startDate, rnd, gt, draws, bar, emitted, args, run, emitted1>>
    /\ UNCHANGED <<ppc, restVars, mainVars>>
    /\ UNCHANGED sideVars

\* populateTable: the date of the item is a Saturday or a Sunday: dayOffset++
GenSkipWeekend ==
    /\ gpc = "day"
    /\ gi < cfg.totalDays
    /\ IsWeekend(startDate + dayOffset)
    /\ dayOffset' = dayOffset + 1
    /\ UNCHANGED <<gpc, now, startDate, rnd, gt, gi, currentPrice, draws, bar,
                   emitted, args, run, emitted1>>
    /\ UNCHANGED <<ppc, restVars, mainVars>>
    /\ UNCHANGED sideVars

\* GenBar without dayOffset++.
GenBarNoAdvance ==
    /\ gpc = "day"
    /\ gi < cfg.totalDays
    /\ ~IsWeekend(startDate + dayOffset)
    /\ draws' = Draws(rnd)
    /\ rnd' = RandSeq(rnd, 9)[9]
    /\ bar' = generateDailyData(cfg.tickers[gt], startDate + dayOffset, currentPrice,
                                draws')
    /\ emitted' = Append(emitted, bar')
    /\ args' = Append(args, currentPrice)
    /\ currentPrice' = bar'.close
    /\ gi' = gi + 1
    /\ UNCHANGED <<gpc, now, startDate, gt, run, emitted1, dayOffset>>
    /\ UNCHANGED <<ppc, restVars, mainVars>>
    /\ UNCHANGED sideVars

\* populateTable: item := generateDailyData(ticker, date, currentPrice, r); the
\* item is sent; currentPrice = item.Close; dayOffset++; i++
GenBar ==
    /\ gpc = "day"
    /\ gi < cfg.totalDays
    /\ ~IsWeekend(startDate + dayOffset)
    /\ draws' = Draws(rnd)
    /\ rnd' = RandSeq(rnd, 9)[9]
    /\ bar' = generateDailyData(cfg.tickers[gt], startDate + dayOffset, currentPrice,
                                draws')
    /\ emitted' = Append(emitted, bar')
    /\ args' = Append(args, currentPrice)
    /\ currentPrice' = bar'.close
    /\ dayOffset' = dayOffset + 1
    /\ gi' = gi + 1
    /\ UNCHANGED <<gpc, now, startDate, gt, run, emitted1>>
    /\ UNCHANGED <<ppc, restVars, mainVars>>
    /\ UNCHANGED sideVars

\* populateTable: i < totalDays is false: the loop goes on to the next ticker
GenTickerEnd ==
    /\ gpc = "day"
    /\ gi = cfg.totalDays
    /\ gt' = gt + 1
    /\ gpc' = "ticker"
    /\ UNCHANGED <<now, startDate, rnd, gi, dayOffset, currentPrice, draws, bar,
                   emitted, args, run, emitted1>>
    /\ UNCHANGED <<ppc, restVars, mainVars>>
    /\ UNCHANGED sideVars

\* The program is run a second time, on any day, with the same seed, tickers
\* and totalDays.
Rerun ==
    /\ gpc = "done"
    /\ run = 1
    /\ run' = 2
    /\ emitted1' = emitted
    /\ \E n \in Nows :
         /\ now' = n
         /\ startDate' = StartDate(n)
    /\ rnd' = Seed
    /\ gt' = 1
    /\ gi' = 0
    /\ dayOffset' = 0
    /\ currentPrice' = 0
    /\ draws' = <<>>
    /\ bar' = NoBar
    /\ emitted' = <<>>
    /\ args' = <<>>
    /\ gpc' = "ticker"
    /\ UNCHANGED <<ppc, restVars, mainVars>>
    /\ UNCHANGED sideVars

NextGen == GenTicker \/ GenSkipWeekend \/ GenBar \/ GenTickerEnd \/ Rerun

SpecGen == InitGen /\ [][NextGen]_vars

\* The generation: runs of the loop, and calls of generateDailyData with any
\* previousClose and any draws.
SpecChain == (InitGen \/ InitBar) /\ [][NextGen \/ NextBar]_vars

\* The configurations in which attributevalue.MarshalMap fails for one item.
ConfigsBad ==
    UNION { { [c EXCEPT !.bad = {x}] : x \in ItemsOf(c.tickers, c.totalDays) } :
              c \in Configs }

InitBad == \E c \in ConfigsBad : InitWith(c)

SpecMarshal == InitBad /\ [][Next]_vars

\* The scheduler runs every goroutine that can take a step: the producer and
\* each worker are weakly fair. Their steps change ppc or a variable of
\* restVars and leave every other variable as it is.
Fairness ==
    /\ WF_<<ppc, restVars>>(Producer)
    /\ \A w \in 1..MaxWorkers : WF_<<ppc, restVars>>(w \in Workers /\ Worker(w))

\* The fair runs are those in which the capacity of the channel times the
\* number of items is at most
MaxFairLoad == 16

ConfigsFair ==
    { c \in Configs : c.cap * Len(c.tickers) * c.totalDays <= MaxFairLoad }

InitFair == \E c \in ConfigsFair : InitWith(c)

SpecFair == InitFair /\ [][Next]_vars /\ Fairness

\* ---------------------------------------------------------------- Handler.GetAllTickers
\* The variables of the seeder.
seedVars == <<ppc, restVars, mainVars, genVars>>

\* The seeder is not run.
SeedOff ==
    /\ InitPipeline(Config(1, 1, <<"TEST">>, 1, 1))
    /\ ppc = "spawn"
    /\ MainAtPopulate(Config(1, 1, <<"TEST">>, 1, 1))
    /\ GenOff

\* The symbols of the tickers the API is run with.
Symbols == {"AAPL", "GOOGL"}

\* A slice of tickers holds at most
MaxSlice == 2

\* models.Ticker values: the Ticker, Name and Active fields. The name tells
\* the position the ticker has in the slice it is passed in.
TickerAt(k, sym, act) ==
    [ticker |-> sym, name |-> IF k = 1 THEN "n1" ELSE IF k = 2 THEN "n2" ELSE "n3",
     active |-> act]

\* The slices of tickers of length n.
SlicesOfLen(n) ==
    { [k \in 1..n |-> TickerAt(k, f[k][1], f[k][2])] :
        f \in [1..n -> Symbols \X {0, 1}] }

\* The []models.Ticker values: the slices of at most MaxSlice tickers, with
\* active and inactive tickers and with repeated symbols.
TickerSlices == UNION { SlicesOfLen(n) : n \in 0..MaxSlice }

\* The errors of the service and of the repository
ServiceErrors == {"database connection error", "failed to get active tickers: timeout"}

\* A request to GET /api/tickers arrives at a handler whose ticker service
\* returns any tickers and any error.
InitHandler ==
    /\ SeedOff
    /\ hpc = "start"
    /\ svcCalls = 0
    /\ svcRet \in [tickers : TickerSlices, err : {"nil"} \cup ServiceErrors]
    /\ resp = [status |-> 0]
    /\ MockOff
    /\ JobOff
    /\ MoreOff

\* GetAllTickers: tickers, err := h.tickerService.GetActiveTickers(ctx)
HandlerCall ==
    /\ hpc = "start"
    /\ svcCalls' = svcCalls + 1
    /\ hpc' = "check"
    /\ UNCHANGED <<svcRet, resp>>
    /\ UNCHANGED mockVars
    /\ UNCHANGED jobVars
    /\ UNCHANGED moreVars
    /\ UNCHANGED seedVars

\* HandlerRespond that answers 200 whatever err is.
HandlerRespondNoCheck ==
    /\ hpc = "check"
    /\ resp' = [status |-> 200,
                body |-> [tickers |-> svcRet.tickers, count |-> Len(svcRet.tickers)]]
    /\ hpc' = "done"
    /\ UNCHANGED <<svcCalls, svcRet>>
    /\ UNCHANGED mockVars
    /\ UNCHANGED jobVars
    /\ UNCHANGED moreVars
    /\ UNCHANGED seedVars

\* GetAllTickers: if err != nil the response is 500 with the error message;
\* else it is 200 with the tickers and their count
HandlerRespond ==
    /\ hpc = "check"
    /\ IF svcRet.err # "nil"
         THEN resp' = [status |-> 500,
                       body |-> [error |-> "Failed to retrieve tickers"]]
         ELSE resp' = [status |-> 200,
                       body |-> [tickers |-> svcRet.tickers,
                                 count |-> Len(svcRet.tickers)]]
    /\ hpc' = "done"
    /\ UNCHANGED <<svcCalls, svcRet>>
    /\ UNCHANGED mockVars
    /\ UNCHANGED jobVars
    /\ UNCHANGED moreVars
    /\ UNCHANGED seedVars

NextHandler == HandlerCall \/ HandlerRespond

SpecHandler == InitHandler /\ [][NextHandler]_vars

\* ---------------------------------------------------------------- MockTickerRepository
\* The mock is called by up to
MaxCallers == 2

\* goroutines, which make up to
MaxCalls == 4

\* calls in all, one call fewer for each caller more.
Callers == DOMAIN caller

\* A further call may begin.
MayCall == mops + Cardinality(Callers) <= MaxCalls

\* An override function that returns an error.
ErrFunc ==
    [set |-> TRUE, tickers |-> <<>>,
     err |-> "invalid ticker: database connection failed"]

\* An override of GetActiveTickers that returns a slice with an inactive ticker.
SliceFunc == [set |-> TRUE, tickers |-> <<TickerAt(1, "AAPL", 0)>>, err |-> "nil"]

\* The function fields as a test sets them: both nil, both returning an
\* error, GetActiveTickersFunc alone returning a slice.
MockFuncs ==
    { [GetTickerFunc |-> NoFunc, GetActiveTickersFunc |-> NoFunc],
      [GetTickerFunc |-> ErrFunc, GetActiveTickersFunc |-> ErrFunc],
      [GetTickerFunc |-> NoFunc, GetActiveTickersFunc |-> SliceFunc] }

\* The symbols GetTicker is asked for: one the tests store, one they do not.
AskedSymbols == {"AAPL", "INVALID"}

\* A new mock, whose function fields the test has set or left nil.
InitMock ==
    /\ SeedOff
    /\ HandlerOff
    /\ JobOff
    /\ MoreOff
    /\ \E n \in 1..MaxCallers : NewMock(n)
    /\ mfunc \in MockFuncs

\* m.mu.Lock() returns when no caller holds the lock or a read lock.
LockFree == mmu.w = 0 /\ mmu.r = {}

\* The entry a call appends to its list of m.Calls.
Entry(op, arg) == IF op = "GetTicker" THEN arg ELSE "ctx"

\* MockCall that does not wait for the lock.
MockCallNoLock(c) ==
    /\ caller[c].pc = "idle"
    /\ MayCall
    /\ \E call \in ({"GetTicker"} \X AskedSymbols)
                     \cup {<<"GetActiveTickers", "">>} :
         /\ caller' = [caller EXCEPT ![c].pc = "load", ![c].op = call[1],
                                     ![c].arg = call[2]]
         /\ recorded' = Append(recorded, call)
    /\ mmu' = [mmu EXCEPT !.w = c]
    /\ mops' = mops + 1
    /\ UNCHANGED <<mtickers, mcalls, mfunc, returned, lastSet>>
    /\ UNCHANGED handlerVars
    /\ UNCHANGED jobVars
    /\ UNCHANGED moreVars
    /\ UNCHANGED seedVars

\* GetTicker(ctx, symbol) or GetActiveTickers(ctx) is called: m.mu.Lock()
MockCall(c) ==
    /\ caller[c].pc = "idle"
    /\ MayCall
    /\ LockFree
    /\ \E call \in ({"GetTicker"} \X AskedSymbols)
                     \cup {<<"GetActiveTickers", "">>} :
         /\ caller' = [caller EXCEPT ![c].pc = "load", ![c].op = call[1],
                                     ![c].arg = call[2]]
         /\ recorded' = Append(recorded, call)
    /\ mmu' = [mmu EXCEPT !.w = c]
    /\ mops' = mops + 1
    /\ UNCHANGED <<mtickers, mcalls, mfunc, returned, lastSet>>
    /\ UNCHANGED handlerVars
    /\ UNCHANGED jobVars
    /\ UNCHANGED moreVars
    /\ UNCHANGED seedVars

\* m.Calls.X = append(m.Calls.X, ...): the read of the list
MockLoad(c) ==
    /\ caller[c].pc = "load"
    /\ caller' = [caller EXCEPT ![c].pc = "store", ![c].reg = mcalls]
    /\ UNCHANGED <<mtickers, mcalls, mfunc, mmu, returned, mops, lastSet, recorded>>
    /\ UNCHANGED handlerVars
    /\ UNCHANGED jobVars
    /\ UNCHANGED moreVars
    /\ UNCHANGED seedVars

\* m.Calls.X = append(m.Calls.X, ...): the write of the list; m.mu.Unlock();
\* the test of the function field
MockStore(c) ==
    /\ caller[c].pc = "store"
    /\ mcalls' = [mcalls EXCEPT
                    ![caller[c].op] = Append(caller[c].reg[caller[c].op],
                                             Entry(caller[c].op, caller[c].arg))]
    /\ mmu' = [mmu EXCEPT !.w = 0]
    /\ caller' = [caller EXCEPT
                    ![c].pc = IF mfunc[caller[c].op \o "Func"].set THEN "func" ELSE "rlock",
                    ![c].reg = NoCalls]
    /\ UNCHANGED <<mtickers, mfunc, returned, mops, lastSet, recorded>>
    /\ UNCHANGED handlerVars
    /\ UNCHANGED jobVars
    /\ UNCHANGED moreVars
    /\ UNCHANGED seedVars

\* return m.GetTickerFunc(ctx, symbol); return m.GetActiveTickersFunc(ctx)
MockFunc(c) ==
    /\ caller[c].pc = "func"
    /\ returned' = Returned(caller[c].op, caller[c].arg, "func",
                          mfunc[caller[c].op \o "Func"].tickers,
                          mfunc[caller[c].op \o "Func"].err)
    /\ caller' = [caller EXCEPT ![c] = NoCall]
    /\ UNCHANGED <<mtickers, mcalls, mfunc, mmu, mops, lastSet, recorded>>
    /\ UNCHANGED handlerVars
    /\ UNCHANGED jobVars
    /\ UNCHANGED moreVars
    /\ UNCHANGED seedVars

\* m.mu.RLock() returns when no caller holds the lock
MockRLock(c) ==
    /\ caller[c].pc = "rlock"
    /\ mmu.w = 0
    /\ mmu' = [mmu EXCEPT !.r = @ \cup {c}]
    /\ caller' = [caller EXCEPT ![c].pc = "read"]
    /\ UNCHANGED <<mtickers, mcalls, mfunc, returned, mops, lastSet, recorded>>
    /\ UNCHANGED handlerVars
    /\ UNCHANGED jobVars
    /\ UNCHANGED moreVars
    /\ UNCHANGED seedVars

\* The sequences that hold each element of the set S once: the orders in
\* which a range over a map can visit its entries.
Orders(S) ==
    { q \in [1..Cardinality(S) -> S] : \A i, j \in 1..Cardinality(S) : i # j => q[i] # q[j] }

\* GetTicker: the default implementation
LookUp(sym) ==
    IF sym \in DOMAIN mtickers
      THEN Returned("GetTicker", sym, "default", <<mtickers[sym]>>, "nil")
      ELSE Returned("GetTicker", sym, "default", <<>>, "ticker not found: " \o sym)

\* ActiveOnes that keeps every ticker.
AllOnes == { mtickers[sym] : sym \in DOMAIN mtickers }

\* GetActiveTickers: the tickers of the map with Active == 1
ActiveOnes == { t \in { mtickers[sym] : sym \in DOMAIN mtickers } : t.active = 1 }

\* The default implementations: the look-up of GetTicker, the loop of
\* GetActiveTickers over the map; the deferred m.mu.RUnlock()
MockRead(c) ==
    /\ caller[c].pc = "read"
    /\ returned' \in IF caller[c].op = "GetTicker"
                       THEN { LookUp(caller[c].arg) }
                       ELSE { Returned("GetActiveTickers", "", "default", q, "nil") :
                                q \in Orders(ActiveOnes) }
    /\ caller' = [caller EXCEPT ![c] = NoCall]
    /\ mmu' = [mmu EXCEPT !.r = @ \ {c}]
    /\ UNCHANGED <<mtickers, mcalls, mfunc, mops, lastSet, recorded>>
    /\ UNCHANGED handlerVars
    /\ UNCHANGED jobVars
    /\ UNCHANGED moreVars
    /\ UNCHANGED seedVars

\* Reset(): under the lock, the map is made anew and both lists are set to nil
MockReset(c) ==
    /\ caller[c].pc = "idle"
    /\ MayCall
    /\ LockFree
    /\ mtickers' = <<>>
    /\ mcalls' = NoCalls
    /\ lastSet' = <<>>
    /\ recorded' = <<>>
    /\ returned' = Returned("Reset", "", "default", <<>>, "nil")
    /\ mops' = mops + 1
    /\ UNCHANGED <<mfunc, mmu, caller>>
    /\ UNCHANGED handlerVars
    /\ UNCHANGED jobVars
    /\ UNCHANGED moreVars
    /\ UNCHANGED seedVars

\* The map SetTickers builds from the slice sl: m.tickers[tickers[i].Ticker] =
\* &tickers[i] for each i in order, a later ticker replacing an earlier one of
\* the same symbol
MapOf(sl) ==
    [sym \in { sl[k].ticker : k \in 1..Len(sl) } |->
        sl[CHOOSE k \in 1..Len(sl) :
              /\ sl[k].ticker = sym
              /\ \A j \in (k + 1)..Len(sl) : sl[j].ticker # sym]]

\* The slices that n callers pass to SetTickers: the more callers, the
\* shorter the slices.
SlicesFor(n) == { sl \in TickerSlices : Len(sl) * n <= MaxSlice }

\* SetTickers(tickers): under the lock, the map is made anew and filled
MockSetTickers(c) ==
    /\ caller[c].pc = "idle"
    /\ MayCall
    /\ LockFree
    /\ \E sl \in SlicesFor(Cardinality(Callers)) :
         /\ mtickers' = MapOf(sl)
         /\ lastSet' = sl
    /\ returned' = Returned("SetTickers", "", "default", <<>>, "nil")
    /\ mops' = mops + 1
    /\ UNCHANGED <<mcalls, mfunc, mmu, caller, recorded>>
    /\ UNCHANGED handlerVars
    /\ UNCHANGED jobVars
    /\ UNCHANGED moreVars
    /\ UNCHANGED seedVars

MockStep(c) ==
    \/ MockCall(c) \/ MockLoad(c) \/ MockStore(c) \/ MockFunc(c) \/ MockRLock(c)
    \/ MockRead(c) \/ MockReset(c) \/ MockSetTickers(c)

NextMock == \E c \in Callers : MockStep(c)

SpecMock == InitMock /\ [][NextMock]_vars

\* ---------------------------------------------------------------- the job-based seeder
\* The capacity of the job channel is at most
MaxCap == 2

\* the sample tickers are at most
MaxSample == 2

\* and their series hold together at most
MaxSeries == 3

\* records; the product of the number of workers, the capacity and the number
\* of records is at most
MaxJobLoad == 4

JobWorkers == DOMAIN jwork

\* The series lengths of up to n tickers, of r records at most in all.
SeriesLengths(n, r) ==
    { ser \in UNION { [1..m -> 1..r] : m \in 1..n } : SumSeq(ser) <= r }

ConfigsJob ==
    { c \in { JobConfig(b, n, cp, ser) :
                b \in 1..MaxBatchSize, n \in 1..MaxWorkers, cp \in 1..MaxCap,
                ser \in SeriesLengths(MaxSample, MaxSeries) } :
        c.maxWorkers * c.cap * SumSeq(c.series) <= MaxJobLoad }

\* The API server and its test doubles off, the other seeders off.
InitJob ==
    /\ SeedOff
    /\ HandlerOff
    /\ MockOff
    /\ MoreOff
    /\ \E c \in ConfigsJob : JobStart(c)

\* A seedJob: the table and the items.
SeedJob(table, items) == [tableName |-> table, items |-> items]

\* The records of sampleTickers, as the items of a job.
TickerItems == [k \in 1..Len(jcfg.series) |-> <<0, k>>]

\* generateDailySummaryData(ticker.Ticker, startDate, endDate) for the t-th
\* ticker: one record per trading day of the range
StockData(t) == [j \in 1..jcfg.series[t] |-> <<t, j>>]

\* for i := 0; i < maxWorkers; i++ { wg.Add(1); go worker(ctx, &wg, jobChan) }
JSpawn ==
    /\ jprod.pc = "spawn"
    /\ jwg' = jcfg.maxWorkers
    /\ jwork' = [w \in JobWorkers |-> [jwork[w] EXCEPT !.pc = "recv"]]
    /\ jprod' = [jprod EXCEPT !.pc = "tickers"]
    /\ UNCHANGED <<jcfg, jobChan, jsent, jdone, jwrites>>
    /\ UNCHANGED <<handlerVars, mockVars, moreVars>>
    /\ UNCHANGED seedVars

\* jobChan <- job, which returns when the buffer has room
JSendTo(job) ==
    /\ Len(jobChan.buf) < jcfg.cap
    /\ jobChan' = [jobChan EXCEPT !.buf = Append(@, job)]
    /\ jsent' = Append(jsent, job)

\* jobChan <- seedJob{client, tickersTable, tickerItems}
JSendTickers ==
    /\ jprod.pc = "tickers"
    /\ JSendTo(SeedJob("Tickers", TickerItems))
    /\ jprod' = [jprod EXCEPT !.pc = "cut", !.t = 1, !.i = 0]
    /\ UNCHANGED <<jcfg, jwg, jwork, jdone, jwrites>>
    /\ UNCHANGED <<handlerVars, mockVars, moreVars>>
    /\ UNCHANGED seedVars

\* BatchItems that does not clamp end to len(stockData).
BatchItemsNoClamp(data, i) ==
    [j \in 1..jcfg.batchSize |->
        IF i + j <= Len(data) THEN data[i + j] ELSE <<0, 0>>]

\* end := i + batchSize; if end > len(stockData) { end = len(stockData) };
\* batchItems: stockData[i:end]
BatchItems(data, i) ==
    SubSeq(data, i + 1,
           IF i + jcfg.batchSize > Len(data) THEN Len(data) ELSE i + jcfg.batchSize)

\* The loop over the tickers and the loop over a ticker's series: a job of the
\* next batchSize records is enqueued; at the end of a series the next ticker
\* is taken.
JCut ==
    /\ jprod.pc = "cut"
    /\ jprod.t <= Len(jcfg.series)
    /\ IF jprod.i < Len(StockData(jprod.t))
         THEN /\ JSendTo(SeedJob("DailySummary", BatchItems(StockData(jprod.t), jprod.i)))
              /\ jprod' = [jprod EXCEPT !.i = @ + jcfg.batchSize]
         ELSE /\ jprod' = [jprod EXCEPT !.t = @ + 1, !.i = 0]
              /\ UNCHANGED <<jobChan, jsent>>
    /\ UNCHANGED <<jcfg, jwg, jwork, jdone, jwrites>>
    /\ UNCHANGED <<handlerVars, mockVars, moreVars>>
    /\ UNCHANGED seedVars

\* close(jobChan)
JClose ==
    /\ jprod.pc = "cut"
    /\ jprod.t > Len(jcfg.series)
    /\ jobChan' = [jobChan EXCEPT !.closed = TRUE]
    /\ jprod' = [jprod EXCEPT !.pc = "wait"]
    /\ UNCHANGED <<jcfg, jwg, jwork, jsent, jdone, jwrites>>
    /\ UNCHANGED <<handlerVars, mockVars, moreVars>>
    /\ UNCHANGED seedVars

\* JWait that does not wait for the workers.
JWaitNoWait ==
    /\ jprod.pc = "wait"
    /\ jprod' = [jprod EXCEPT !.pc = "done"]
    /\ UNCHANGED <<jcfg, jobChan, jwg, jwork, jsent, jdone, jwrites>>
    /\ UNCHANGED <<handlerVars, mockVars, moreVars>>
    /\ UNCHANGED seedVars

\* wg.Wait(); fmt.Println("\nSeed data loaded successfully!")
JWait ==
    /\ jprod.pc = "wait"
    /\ jwg = 0
    /\ jprod' = [jprod EXCEPT !.pc = "done"]
    /\ UNCHANGED <<jcfg, jobChan, jwg, jwork, jsent, jdone, jwrites>>
    /\ UNCHANGED <<handlerVars, mockVars, moreVars>>
    /\ UNCHANGED seedVars

\* for job := range jobs: a job is received
JRecv(w) ==
    /\ jwork[w].pc = "recv"
    /\ jobChan.buf # <<>>
    /\ jwork' = [jwork EXCEPT ![w] = [pc |-> "item", job |-> Head(jobChan.buf),
                                      k |-> 1, ok |-> 0]]
    /\ jobChan' = [jobChan EXCEPT !.buf = Tail(@)]
    /\ UNCHANGED <<jcfg, jprod, jwg, jsent, jdone, jwrites>>
    /\ UNCHANGED <<handlerVars, mockVars, moreVars>>
    /\ UNCHANGED seedVars

\* for job := range jobs: the channel is closed and empty; the deferred wg.Done()
JRangeEnd(w) ==
    /\ jwork[w].pc = "recv"
    /\ jobChan.buf = <<>>
    /\ jobChan.closed
    /\ jwork' = [jwork EXCEPT ![w].pc = "done"]
    /\ jwg' = jwg - 1
    /\ UNCHANGED <<jcfg, jprod, jobChan, jsent, jdone, jwrites>>
    /\ UNCHANGED <<handlerVars, mockVars, moreVars>>
    /\ UNCHANGED seedVars

\* processBatch: one turn of the loop over job.items: MarshalMap and PutItem,
\* each of which can fail, the item then being logged and left out
JItem(w) ==
    /\ jwork[w].pc = "item"
    /\ jwork[w].k <= Len(jwork[w].job.items)
    /\ \E written \in BOOLEAN :
         /\ jwork' = [jwork EXCEPT ![w].k = @ + 1,
                                   ![w].ok = IF written THEN @ + 1 ELSE @]
         /\ jwrites' =
              IF jwork[w].job.tableName = "Tickers"
                THEN [jwrites EXCEPT !.tickers = @ + 1]
                ELSE IF written /\ jwrites.first = -1
                       THEN [jwrites EXCEPT !.first = jwrites.tickers]
                       ELSE jwrites
    /\ UNCHANGED <<jcfg, jprod, jobChan, jwg, jsent, jdone>>
    /\ UNCHANGED <<handlerVars, mockVars, moreVars>>
    /\ UNCHANGED seedVars

\* processBatch: the progress line, which reads job.items[0] and so panics on
\* a job without items
JLog(w) ==
    /\ jwork[w].pc = "item"
    /\ jwork[w].k > Len(jwork[w].job.items)
    /\ IF jwork[w].job.items = <<>>
         THEN /\ jwork' = [jwork EXCEPT ![w].pc = "panic"]
              /\ UNCHANGED jdone
         ELSE /\ jwork' = [jwork EXCEPT ![w] = [pc |-> "recv", job |-> <<>>,
                                                k |-> 0, ok |-> 0]]
              /\ jdone' = jdone (+) SetToBag({[w |-> w, job |-> jwork[w].job,
                                         kind |-> IF jwork[w].job.items[1][1] = 0
                                                    THEN "tickers"
                                                    ELSE "daily summary records",
                                         inserted |-> Len(jwork[w].job.items),
                                         ok |-> jwork[w].ok]})
    /\ UNCHANGED <<jcfg, jprod, jobChan, jwg, jsent, jwrites>>
    /\ UNCHANGED <<handlerVars, mockVars, moreVars>>
    /\ UNCHANGED seedVars

\* func worker
JWorker(w) == JRecv(w) \/ JRangeEnd(w) \/ JItem(w) \/ JLog(w)

NextJob ==
    \/ JSpawn \/ JSendTickers \/ JCut \/ JClose \/ JWait
    \/ \E w \in JobWorkers : JWorker(w)

SpecJob == InitJob /\ [][NextJob]_vars

\* main and each worker goroutine are scheduled again and again.
JobFairness ==
    /\ WF_vars(JSpawn \/ JSendTickers \/ JCut \/ JClose \/ JWait)
    /\ \A w \in 1..MaxWorkers : WF_vars(w \in JobWorkers /\ JWorker(w))

SpecJobFair == SpecJob /\ JobFairness

\* ---------------------------------------------------------------- Server
\* the seeders, the handler, the mock and the job-based seeder
oldVars == <<seedVars, handlerVars, mockVars, jobVars>>

\* None of them is run.
OldOff == SeedOff /\ HandlerOff /\ MockOff /\ JobOff

\* every variable but the Server's
exceptServer == <<oldVars, loggerVars, tailVars>>

\* Start is called at most
MaxStarts == 2

\* times, at most
MaxInflight == 1

\* request is in flight at a time, and config.ShutdownTimeout is
ShutdownTimeout == 2

\* ticks of the clock.
ListenError == "listen tcp :8080: bind: address already in use"

ErrServerClosed == "http: Server closed"

InitServer ==
    /\ OldOff
    /\ LoggerOff
    /\ TailOff
    /\ NewServer(MaxStarts)

\* Start is called: serverErrors and shutdown are made, the goroutine is
\* started, signal.Notify is called; ctx is cancelled already or not
StartCall ==
    /\ spc \in {"new", "returned"}
    /\ scall < MaxStarts
    /\ scall' = scall + 1
    /\ spc' = "select"
    /\ listener' = [listener EXCEPT ![scall + 1].pc = "serve"]
    /\ shutdownCh' = <<>>
    /\ ctxDone' \in BOOLEAN
    /\ httpd' = IF httpd.state = "new" THEN [httpd EXCEPT !.state = "serving"] ELSE httpd
    /\ sret' = "none"
    /\ shist' = [trig |-> "", got |-> "nil", grace |-> -1]
    /\ UNCHANGED <<serverErrors, clock>>
    /\ UNCHANGED exceptServer

\* s.httpServer.ListenAndServe() returns: with an error of the listener while
\* the server serves, with http.ErrServerClosed once Shutdown or Close was called
ListenReturn(c) ==
    /\ listener[c].pc = "serve"
    /\ listener' = [listener EXCEPT
                      ![c] = [pc |-> "send",
                              err |-> IF httpd.state = "serving"
                                        THEN ListenError ELSE ErrServerClosed]]
    /\ UNCHANGED <<spc, scall, serverErrors, shutdownCh, ctxDone, httpd, clock, sret, shist>>
    /\ UNCHANGED exceptServer

\* serverErrors <- ..., which returns when the buffer of one error has room
ListenSend(c) ==
    /\ listener[c].pc = "send"
    /\ Len(serverErrors[c]) < 1
    /\ serverErrors' = [serverErrors EXCEPT ![c] = Append(@, listener[c].err)]
    /\ listener' = [listener EXCEPT ![c].pc = "done"]
    /\ UNCHANGED <<spc, scall, shutdownCh, ctxDone, httpd, clock, sret, shist>>
    /\ UNCHANGED exceptServer

\* SIGINT or SIGTERM is delivered to the channel signal.Notify was given
Signal ==
    /\ spc \in {"select", "shutdown", "close"}
    /\ shutdownCh = <<>>
    /\ shutdownCh' = <<"terminated">>
    /\ UNCHANGED <<spc, scall, listener, serverErrors, ctxDone, httpd, clock, sret, shist>>
    /\ UNCHANGED exceptServer

\* ctx is cancelled
Cancel ==
    /\ spc \in {"select", "shutdown", "close"}
    /\ ~ctxDone
    /\ ctxDone' = TRUE
    /\ UNCHANGED <<spc, scall, listener, serverErrors, shutdownCh, httpd, clock, sret, shist>>
    /\ UNCHANGED exceptServer

\* A request arrives at the serving server.
RequestBegin ==
    /\ httpd.state = "serving"
    /\ \E c \in DOMAIN listener : listener[c].pc = "serve"
    /\ httpd.inflight < MaxInflight
    /\ httpd' = [httpd EXCEPT !.inflight = @ + 1]
    /\ UNCHANGED <<spc, scall, listener, serverErrors, shutdownCh, ctxDone, clock, sret, shist>>
    /\ UNCHANGED exceptServer

\* A request in flight completes.
RequestEnd ==
    /\ httpd.inflight > 0
    /\ httpd' = [httpd EXCEPT !.inflight = @ - 1]
    /\ UNCHANGED <<spc, scall, listener, serverErrors, shutdownCh, ctxDone, clock, sret, shist>>
    /\ UNCHANGED exceptServer

\* case err := <-serverErrors: return err unless it is http.ErrServerClosed,
\* return nil if it is
SelectListener ==
    /\ spc = "select"
    /\ serverErrors[scall] # <<>>
    /\ serverErrors' = [serverErrors EXCEPT ![scall] = Tail(@)]
    /\ sret' = IF Head(serverErrors[scall]) # ErrServerClosed
                 THEN Head(serverErrors[scall]) ELSE "nil"
    /\ spc' = "returned"
    /\ shist' = [shist EXCEPT !.trig = "listener", !.got = Head(serverErrors[scall])]
    /\ UNCHANGED <<scall, listener, shutdownCh, ctxDone, httpd, clock>>
    /\ UNCHANGED exceptServer

\* gracefulShutdown up to the call of Shutdown: shutdownCtx is made from ctx
\* with the timeout, Shutdown closes the listeners
BeginShutdown ==
    /\ spc' = "shutdown"
    /\ clock' = 0
    /\ httpd' = [httpd EXCEPT !.state = IF @ = "closed" THEN @ ELSE "shutdown"]

\* case sig := <-shutdown: return s.gracefulShutdown(ctx)
SelectSignal ==
    /\ spc = "select"
    /\ shutdownCh # <<>>
    /\ shutdownCh' = Tail(shutdownCh)
    /\ BeginShutdown
    /\ shist' = [shist EXCEPT !.trig = "signal"]
    /\ UNCHANGED <<scall, listener, serverErrors, ctxDone, sret>>
    /\ UNCHANGED exceptServer

\* case <-ctx.Done(): return s.gracefulShutdown(ctx)
SelectCtx ==
    /\ spc = "select"
    /\ ctxDone
    /\ BeginShutdown
    /\ shist' = [shist EXCEPT !.trig = "ctx"]
    /\ UNCHANGED <<scall, listener, serverErrors, shutdownCh, ctxDone, sret>>
    /\ UNCHANGED exceptServer

\* Time passes while Shutdown waits.
Tick ==
    /\ spc = "shutdown"
    /\ clock < ShutdownTimeout
    /\ clock' = clock + 1
    /\ UNCHANGED <<spc, scall, listener, serverErrors, shutdownCh, ctxDone, httpd, sret, shist>>
    /\ UNCHANGED exceptServer

\* Shutdown finds no request in flight and returns nil; gracefulShutdown and
\* Start return nil
ShutdownOk ==
    /\ spc = "shutdown"
    /\ httpd.inflight = 0
    /\ sret' = "nil"
    /\ spc' = "returned"
    /\ UNCHANGED <<scall, listener, serverErrors, shutdownCh, ctxDone, httpd, clock, shist>>
    /\ UNCHANGED exceptServer

\* shutdownCtx is done: its timeout has passed or ctx, from which it was made,
\* is cancelled
ShutdownCtxDone == clock >= ShutdownTimeout \/ ctxDone

\* Shutdown finds a request in flight and shutdownCtx done, and returns the
\* error of shutdownCtx
ShutdownFail ==
    /\ spc = "shutdown"
    /\ httpd.inflight > 0
    /\ ShutdownCtxDone
    /\ \E e \in {"context canceled", "context deadline exceeded"} :
         /\ e = "context canceled" => ctxDone
         /\ e = "context deadline exceeded" => clock >= ShutdownTimeout
         /\ sret' = e
    /\ spc' = "close"
    /\ UNCHANGED <<scall, listener, serverErrors, shutdownCh, ctxDone, httpd, clock, shist>>
    /\ UNCHANGED exceptServer

\* ForceClose that leaves the server as it is.
ForceCloseNot ==
    /\ spc = "close"
    /\ spc' = "returned"
    /\ shist' = [shist EXCEPT !.grace = clock]
    /\ UNCHANGED <<scall, listener, serverErrors, shutdownCh, ctxDone, httpd, clock, sret>>
    /\ UNCHANGED exceptServer

\* s.httpServer.Close(), which closes the connections of the requests in
\* flight; return err
ForceClose ==
    /\ spc = "close"
    /\ httpd' = [state |-> "closed", inflight |-> 0]
    /\ spc' = "returned"
    /\ shist' = [shist EXCEPT !.grace = clock]
    /\ UNCHANGED <<scall, listener, serverErrors, shutdownCh, ctxDone, clock, sret>>
    /\ UNCHANGED exceptServer

\* func (s *Server) Start and the gracefulShutdown it calls
Start ==
    \/ StartCall \/ SelectListener \/ SelectSignal \/ SelectCtx
    \/ ShutdownOk \/ ShutdownFail \/ ForceClose

NextServer ==
    \/ Start \/ Tick \/ Signal \/ Cancel \/ RequestBegin \/ RequestEnd
    \/ \E c \in DOMAIN listener : ListenReturn(c) \/ ListenSend(c)

SpecServer == InitServer /\ [][NextServer]_vars

\* Start and the goroutine run on, and time passes.
ServerFairness ==
    /\ WF_vars(SelectListener \/ SelectSignal \/ SelectCtx \/ ShutdownOk
                 \/ ShutdownFail \/ ForceClose)
    /\ WF_vars(Tick)
    /\ \A c \in 1..MaxStarts : WF_vars(ListenSend(c))

SpecServerFair == SpecServer /\ ServerFairness

\* ---------------------------------------------------------------- package logger
\* every variable but the logger's
exceptLogger == <<oldVars, serverVars, tailVars>>

\* The goroutines make at most
MaxLogCalls == 3

\* calls in all, one call fewer for each goroutine more.
LogCallers == DOMAIN lcaller

\* Config values: the environment and whether the output paths can be opened.
LogConfigs == {"development", "production", "development, no output", "production, no output"}

\* The Config of InitWithDefaults, with the environment variables not set.
DefaultConfig == "development"

\* buildLogger(cfg): the logger and the error; zapCfg.Build fails when an
\* output path cannot be opened
buildLogger(c) ==
    IF c \in {"development, no output", "production, no output"}
      THEN [logger |-> "nil", err |-> "failed to build logger"]
      ELSE [logger |-> "logger for " \o c, err |-> "nil"]

InitLogger ==
    /\ OldOff
    /\ ServerOff
    /\ TailOff
    /\ \E n \in 1..MaxCallers : NewLogger(n)

\* Init(cfg), InitWithDefaults() or Get() is called
LogCall(c) ==
    /\ lcaller[c].pc = "idle"
    /\ lcalls + Cardinality(LogCallers) <= MaxLogCalls
    /\ lcalls' = lcalls + 1
    /\ \E call \in ({"Init"} \X LogConfigs) \cup {<<"InitWithDefaults", DefaultConfig>>}
                     \cup {<<"Get", "">>} :
         lcaller' = [lcaller EXCEPT
                       ![c] = [pc |-> IF call[1] = "Get" THEN "read" ELSE "once",
                               op |-> call[1], cfg |-> call[2], seen |-> "nil",
                               ret |-> "none", synced |-> lcaller[c].synced]]
    /\ UNCHANGED <<instance, initErr, once, builds>>
    /\ UNCHANGED exceptLogger

\* Get: if instance == nil, a read that is not ordered with the write of the
\* build unless the goroutine has synchronised with it; on nil the goroutine
\* calls InitWithDefaults, otherwise it returns instance
GetRead(c) ==
    /\ lcaller[c].pc = "read"
    /\ \E seen \in {instance} \cup (IF lcaller[c].synced THEN {} ELSE {"nil"}) :
         lcaller' = [lcaller EXCEPT
                       ![c] = IF seen = "nil"
                                THEN [@ EXCEPT !.pc = "once", !.cfg = DefaultConfig]
                                ELSE [@ EXCEPT !.pc = "idle", !.seen = seen,
                                               !.ret = instance]]
    /\ UNCHANGED <<instance, initErr, once, lcalls, builds>>
    /\ UNCHANGED exceptLogger

\* OnceDo that takes the function also when it was run.
OnceDoAgain(c) ==
    /\ lcaller[c].pc = "once"
    /\ once.holder = 0
    /\ once' = [once EXCEPT !.holder = c]
    /\ lcaller' = [lcaller EXCEPT ![c].pc = "build"]
    /\ UNCHANGED <<instance, initErr, lcalls, builds>>
    /\ UNCHANGED exceptLogger

\* once.Do(f): the first goroutine takes the function, the others wait until
\* it is done and then go on without it
OnceDo(c) ==
    /\ lcaller[c].pc = "once"
    /\ once.holder = 0
    /\ IF once.done
         THEN /\ lcaller' = [lcaller EXCEPT ![c].pc = "ret", ![c].synced = TRUE]
              /\ UNCHANGED once
         ELSE /\ once' = [once EXCEPT !.holder = c]
              /\ lcaller' = [lcaller EXCEPT ![c].pc = "build"]
    /\ UNCHANGED <<instance, initErr, lcalls, builds>>
    /\ UNCHANGED exceptLogger

\* instance, initErr = buildLogger(cfg), and the end of once.Do
Build(c) ==
    /\ lcaller[c].pc = "build"
    /\ instance' = buildLogger(lcaller[c].cfg).logger
    /\ initErr' = buildLogger(lcaller[c].cfg).err
    /\ builds' = Append(builds, lcaller[c].cfg)
    /\ once' = [done |-> TRUE, holder |-> 0]
    /\ lcaller' = [lcaller EXCEPT ![c].pc = "ret", ![c].synced = TRUE]
    /\ UNCHANGED lcalls
    /\ UNCHANGED exceptLogger

\* Init: return initErr; Get: on an error of InitWithDefaults the fallback
\* logger is returned, otherwise instance
InitReturn(c) ==
    /\ lcaller[c].pc = "ret"
    /\ lcaller' = [lcaller EXCEPT
                     ![c].pc = "idle",
                     ![c].ret = IF lcaller[c].op # "Get" THEN initErr
                                ELSE IF initErr # "nil" THEN "fallback logger"
                                ELSE instance]
    /\ UNCHANGED <<instance, initErr, once, lcalls, builds>>
    /\ UNCHANGED exceptLogger

LogStep(c) == LogCall(c) \/ GetRead(c) \/ OnceDo(c) \/ Build(c) \/ InitReturn(c)

NextLogger == \E c \in LogCallers : LogStep(c)

SpecLogger == InitLogger /\ [][NextLogger]_vars

\* ---------------------------------------------------------------- properties
\* The items the producer has sent on the channel.
Sent ==
    { x \in AllItems :
        \E t \in 1..Len(cfg.tickers) :
            /\ cfg.tickers[t] = x.ticker
            /\ t < ti \/ (t = ti /\ x.seq < di) }

\* How many times x occurs in the sequence s.
Occurs(s, x) == Cardinality({ k \in 1..Len(s) : s[k] = x })

\* The workers that hold a batch they have not passed to processBatch yet.
Collecting == { w \in Workers : wpc[w] = "recv" }

AllReturned == \A w \in Workers : wpc[w] = "done"

RECURSIVE SumOver(_, _)
SumOver(f, S) ==
    IF S = {} THEN 0
    ELSE LET w == CHOOSE v \in S : TRUE IN f[w] + SumOver(f, S \ {w})

\* C1: every item sent on the channel is, at every moment, in exactly one
\* place: buffered in the channel, in the batch a worker is still collecting,
\* or in one batch passed to processBatch; so no item is flushed twice, and once
\* all workers have returned every item has been flushed exactly once.
C1_ExactlyOneFlush ==
    /\ \A x \in AllItems :
         /\ flushCount[x] <= 1
         /\ x \notin Sent => flushCount[x] = 0 /\ Occurs(itemChan, x) = 0
         /\ x \in Sent =>
              Occurs(itemChan, x) + flushCount[x]
                + SumOver([w \in Workers |-> Occurs(batch[w], x)], Collecting) = 1
    /\ AllReturned => \A x \in AllItems : x \in Sent /\ flushCount[x] = 1

\* Two workers have returned, one after flushing a residual batch, and a batch
\* was dropped on the way.
C1_Witness ==
    /\ AllReturned
    /\ cfg.numWorkers = 2
    /\ dropped > 0
    /\ \E w \in Workers :
         /\ Len(sizes[w]) >= 1
         /\ sizes[w][Len(sizes[w])] < cfg.batchSize
    /\ \A w \in Workers : sizes[w] # <<>>

\* C2: every batch a worker passes to processBatch has between 1 and batchSize
\* items; a batch smaller than batchSize is the last one the worker flushes,
\* passed after its range loop ended on the closed and drained channel, so each
\* worker flushes at most one such batch.
C2_BatchSizes ==
    \A w \in Workers :
        /\ \A k \in 1..Len(sizes[w]) :
             /\ 1 <= sizes[w][k]
             /\ sizes[w][k] <= cfg.batchSize
             /\ sizes[w][k] < cfg.batchSize =>
                  k = Len(sizes[w]) /\ final[w] /\ closed /\ itemChan = <<>>
        /\ Cardinality({ k \in 1..Len(sizes[w]) : sizes[w][k] < cfg.batchSize }) <= 1
        /\ wpc[w] \in {"write", "sleep", "ret", "lock", "load", "store", "unlock"} =>
             /\ sizes[w] # <<>>
             /\ sizes[w][Len(sizes[w])] = Len(batch[w])

\* A worker has flushed a full batch and then a smaller final one.
C2_Witness ==
    \E w \in Workers :
        /\ Len(sizes[w]) = 2
        /\ sizes[w][1] = cfg.batchSize
        /\ sizes[w][2] < cfg.batchSize
        /\ cfg.batchSize > 1

\* The run is over and the store has accepted every write.
CompletedAllAccepted == ppc = "done" /\ ~anyFail

\* C3 (as stated): with 1 symbol, 10 trading days, batch size 4, 2 workers and
\* a store that accepts every write, a complete run has made exactly 3
\* bulk-write calls, carrying 10 items in total.
C3_ExactlyThreeCalls ==
    CompletedAllAccepted => okCalls = 3 /\ okItems = 10

\* C3 (amended): in that scenario a complete run has made 3 or 4 bulk-write
\* calls, carrying 10 items in total: each worker flushes its own residual.
C3_ThreeOrFourCalls ==
    CompletedAllAccepted => okCalls \in {3, 4} /\ okItems = 10

\* A complete run of the scenario with every write accepted and 3 calls made.
C3_Witness == CompletedAllAccepted /\ okCalls = 3 /\ cfg = ScenarioA

\* The producer is blocked: it sends on the full channel, or waits for workers
\* that have not returned.
ProducerBlocked ==
    \/ ppc = "send" /\ Len(itemChan) >= cfg.cap
    \/ ppc = "wait" /\ wg # 0

\* Worker w is blocked: it receives from the empty, open channel, or waits for
\* the mutex another worker holds.
WorkerBlocked(w) ==
    \/ wpc[w] = "recv" /\ itemChan = <<>> /\ ~closed
    \/ wpc[w] = "lock" /\ mu # 0

\* C4: with a channel capacity from 1 up to one less than the number of items
\* and any number of workers, before populateTable has returned some goroutine
\* can always take a step (the producer and the started workers are never all
\* blocked), and when it has returned every item has been flushed.
C4_NoDeadlock ==
    /\ cfg.cap >= 1 /\ cfg.cap < NumItems
    /\ ppc # "done" => ENABLED Next
    /\ ppc # "done" =>
         ~(ProducerBlocked /\ \A w \in Workers : wpc[w] \in {"idle", "done"} \/ WorkerBlocked(w))
    /\ ppc = "done" => \A x \in AllItems : flushCount[x] = 1

\* The producer is blocked on the full channel, which is smaller than the
\* number of items, while every worker is in a retry backoff.
C4_Witness ==
    /\ ppc = "send"
    /\ Len(itemChan) = cfg.cap
    /\ cfg.cap < NumItems
    /\ cfg.numWorkers = 2
    /\ \A w \in Workers : wpc[w] = "sleep"

\* The calls of s are k failures followed by one success.
FailsThenOk(s, k) ==
    /\ Len(s) >= k + 1
    /\ \A j \in 1..k : s[j] = "fail"
    /\ s[k + 1] = "ok"

\* The workers whose processBatch returned nil and whose addition to
\* totalItems is still to come.
ToCount ==
    { w \in Workers :
        \/ wpc[w] = "ret" /\ err[w] = "nil"
        \/ wpc[w] \in {"lock", "load", "store"} }

\* C5: when the store fails the first k calls for a batch (k < 3) and accepts
\* the next, processBatch has made exactly k+1 calls when it returns, it returns
\* nil, it makes no call after a success, and the batches whose processBatch
\* returned nil are added to totalItems once each, with their size.
C5_RetryThenSuccess ==
    /\ \A w \in Workers : \A k \in 0..(maxRetries - 1) :
         FailsThenOk(calls[w], k) =>
             /\ Len(calls[w]) = k + 1
             /\ wpc[w] \in {"ret", "lock", "load", "store", "unlock"}
             /\ err[w] = "nil"
    /\ \A w \in Workers :
         wpc[w] \in {"lock", "load", "store", "unlock"} =>
             \E k \in 0..(maxRetries - 1) :
                 FailsThenOk(calls[w], k) /\ attempt[w] = k
    /\ adds = okCalls - Cardinality(ToCount)
    /\ counted = okItems - SumOver([w \in Workers |-> Len(batch[w])], ToCount)

\* A worker has added a batch that the store accepted at the third call.
C5_Witness ==
    \E w \in Workers :
        /\ wpc[w] = "unlock"
        /\ calls[w] = <<"fail", "fail", "ok">>
        /\ adds = okCalls

\* The workers inside processBatch or handling what it returned.
Flushing ==
    { w \in Workers :
        wpc[w] \in {"write", "sleep", "ret", "lock", "load", "store", "unlock"} }

\* C6: while the store has failed every call, a processBatch that returns has
\* made exactly 3 calls and returns the error, the batch is dropped, totalItems
\* stays 0, a worker goes on after a drop (it returns only when its range loop
\* has ended), and populateTable still returns nil, logging a total of 0.
C6_AlwaysFailing ==
    okCalls = 0 =>
        /\ totalItems = 0 /\ adds = 0
        /\ \A w \in Workers :
             /\ Len(calls[w]) <= maxRetries
             /\ wpc[w] = "ret" =>
                  Len(calls[w]) = maxRetries /\ err[w] = "err"
             /\ wpc[w] \in {"log", "done"} => final[w] /\ closed /\ itemChan = <<>>
        /\ dropped = SumOver([w \in Workers |-> SumSeq(sizes[w])], Workers)
                       - SumOver([w \in Workers |-> Len(batch[w])], Flushing)
        /\ ppc = "done" =>
             result = "nil" /\ summary = 0 /\ dropped = NumItems

\* populateTable has returned after a worker went on from a dropped batch to
\* drop another, with no write accepted.
C6_Witness ==
    /\ ppc = "done"
    /\ okCalls = 0
    /\ dropped = NumItems
    /\ \E w \in Workers : Len(sizes[w]) >= 2

\* The workers between mu.Lock() and mu.Unlock().
InCritical == { w \in Workers : wpc[w] \in {"load", "store", "unlock"} }

\* C7: at most one worker is between mu.Lock() and mu.Unlock(), and it is the
\* one that holds the mutex; totalItems is the sum of the sizes of the batches
\* added to it; when populateTable has returned, totalItems and the total it
\* logged are the number of generated items less the items of dropped batches.
C7_CounterExact ==
    /\ Cardinality(InCritical) <= 1
    /\ \A w \in Workers : w \in InCritical <=> mu = w
    /\ totalItems = counted
    /\ ppc = "done" =>
         /\ totalItems = NumItems - dropped
         /\ summary = totalItems

\* A worker is about to write its sum to totalItems, which already counts a
\* batch, while another worker waits for the mutex, and a batch was dropped.
C7_Witness ==
    \E w1, w2 \in Workers :
        /\ wpc[w1] = "store"
        /\ wpc[w2] = "lock"
        /\ totalItems > 0
        /\ dropped > 0

PhaseRank(p) ==
    CASE p = "Idle" -> 0 [] p = "Streaming" -> 1 [] p = "Draining" -> 2
      [] p = "Completed" -> 3

\* Worker w has returned, and every item it received is in a batch it flushed.
ReturnedFlushed(w) ==
    /\ wpc[w] = "done"
    /\ workerItems[w] = SumSeq(sizes[w])
    /\ \A x \in Range(batch[w]) : flushCount[x] = 1

\* The summary is computed from a settled pipeline.
C8_SummaryAfterDrain ==
    (Phase = "Completed" \/ summary # -1) =>
        /\ closed
        /\ itemChan = <<>>
        /\ wg = 0
        /\ \A w \in Workers : ReturnedFlushed(w)

\* A step keeps the phase or moves it to the next one.
C8_PhaseStep ==
    /\ PhaseRank(Phase') \in {PhaseRank(Phase), PhaseRank(Phase) + 1}
    /\ summary' # summary => Phase = "Completed" /\ summary' = totalItems

\* C8: the phases occur only in the order Idle, Streaming, Draining,
\* Completed, none skipped and none revisited, and the summary's read of
\* totalItems happens only in Completed, when the channel is closed and empty
\* and every worker has returned with all it received flushed.
C8_PhaseOrder == []C8_SummaryAfterDrain /\ [][C8_PhaseStep]_vars

\* The summary is about to be computed after a worker flushed a residual batch.
C8_Witness ==
    /\ ppc = "summary"
    /\ cfg.numWorkers = 2
    /\ \E w \in Workers :
         /\ sizes[w] # <<>>
         /\ sizes[w][Len(sizes[w])] < cfg.batchSize

\* C9: under weak fairness of the producer and of every worker, whatever the
\* store answers to each call, populateTable eventually returns with every
\* worker returned, and no processBatch makes more than 3 attempts.
C9_EventuallyCompleted ==
    /\ [](\A w \in Workers : attempt[w] < maxRetries /\ Len(calls[w]) <= maxRetries)
    /\ <>(ppc = "done" /\ AllReturned /\ result = "nil")

\* populateTable has returned from a run in which the store dropped a batch
\* and accepted another.
C9_Witness ==
    /\ ppc = "done"
    /\ AllReturned
    /\ dropped > 0
    /\ okCalls > 0

\* C10: the channel never buffers more than its capacity batchSize x
\* numWorkers; the producer's send can happen only while the channel is not
\* full, a worker's receive only while it is not empty, and a worker's range
\* loop can end only on the closed, empty channel.
C10_ChannelBounded ==
    /\ cfg.cap = cfg.batchSize * cfg.numWorkers
    /\ Len(itemChan) <= cfg.cap
    /\ ENABLED Send => Len(itemChan) < cfg.cap
    /\ \A w \in Workers :
         /\ ENABLED Recv(w) => Len(itemChan) > 0
         /\ ENABLED RangeEnd(w) => closed /\ Len(itemChan) = 0

\* The producer holds an item it cannot send: the channel is full.
C10_Witness ==
    /\ ppc = "send"
    /\ Len(itemChan) = cfg.cap
    /\ ~ENABLED Send
    /\ \E w \in Workers : ENABLED Recv(w)

\* The channel is closed only when every item has been sent, and a worker
\* leaves its range loop only on the closed, empty channel.
C11_ClosedAfterLastSend ==
    /\ closed => ppc \in {"wait", "summary", "done"} /\ Sent = AllItems /\ item = NoItem
    /\ ppc = "close" => ~closed /\ Sent = AllItems
    /\ \A w \in Workers :
         (final[w] \/ wpc[w] \in {"log", "done"}) => closed /\ itemChan = <<>>
    /\ AllReturned => itemChan = <<>>

\* The close is the producer's close statement and is never undone; after it
\* nothing is sent, and an item leaves the channel only into a worker's batch.
C11_CloseStep ==
    /\ closed => closed'
    /\ (closed' /\ ~closed) => ppc = "close" /\ ppc' = "wait" /\ itemChan' = itemChan
    /\ closed =>
         \/ itemChan' = itemChan
         \/ /\ itemChan # <<>>
            /\ itemChan' = Tail(itemChan)
            /\ \E w \in Workers : batch'[w] = Append(batch[w], Head(itemChan))

\* C11: the channel is closed once, by the producer's close statement, after
\* the last item of the last ticker has been sent; nothing is sent after the
\* close; the items buffered at the close are still received by the workers,
\* and the channel is empty when a worker leaves its loop, so also when the
\* last worker returns.
C11_CloseOnceThenDrain == []C11_ClosedAfterLastSend /\ [][C11_CloseStep]_vars

\* The channel is closed with two items still buffered and a worker receiving.
C11_Witness ==
    /\ closed
    /\ Len(itemChan) >= 2
    /\ \E w \in Workers : wpc[w] = "recv"

\* C20: processBatch makes at most 3 BatchWriteItem calls for a batch and none
\* after a call that succeeded; a failed attempt that is not the last is
\* followed by a wait of 2^attempt seconds, 1 before the second call and 2
\* before the third; the third failed attempt is followed by no wait.
C20_RetryBackoff ==
    \A w \in Workers :
        /\ Len(calls[w]) <= 3
        /\ \A k \in 1..(Len(calls[w]) - 1) : calls[w][k] = "fail"
        /\ waits[w] \in {<<>>, <<1>>, <<1, 2>>}
        /\ wpc[w] = "write" => Len(calls[w]) = attempt[w] /\ Len(waits[w]) = attempt[w]
        /\ wpc[w] = "sleep" =>
             /\ attempt[w] < 2
             /\ Len(calls[w]) = attempt[w] + 1
             /\ Len(waits[w]) = attempt[w] + 1
        /\ (wpc[w] = "ret" /\ err[w] = "err") =>
             /\ calls[w] = <<"fail", "fail", "fail">>
             /\ waits[w] = <<1, 2>>
        /\ (wpc[w] = "ret" /\ err[w] = "nil") =>
             /\ calls[w] # <<>>
             /\ calls[w][Len(calls[w])] = "ok"
             /\ Len(waits[w]) = Len(calls[w]) - 1
        /\ wpc[w] \in {"idle", "recv", "log", "done"} => calls[w] = <<>>

\* A processBatch whose three attempts failed returns its error after waits
\* of 1 and 2 seconds.
C20_Witness ==
    \E w \in Workers :
        /\ wpc[w] = "ret"
        /\ calls[w] = <<"fail", "fail", "fail">>
        /\ waits[w] = <<1, 2>>

\* processBatch: the items of writeRequests, which every BatchWriteItem call
\* of the current processBatch of worker w submits
Submitted(w) == IF calls[w] = <<>> THEN {} ELSE Range(batch[w])

\* C14: when processBatch returns for a batch that holds an item that fails to
\* marshal and other items, the other items of the batch have been submitted
\* to the store in a bulk write.
C14_BadItemSkipped ==
    \A w \in Workers :
        (/\ wpc[w] = "ret"
         /\ Range(batch[w]) \cap cfg.bad # {}
         /\ Range(batch[w]) \ cfg.bad # {})
        => Submitted(w) = Range(batch[w]) \ cfg.bad

\* C12: when the process has exited, it exited with status 0 if the pipeline
\* reached Completed, and a status other than 0 comes from a failed setup step
\* only.
C12_ExitStatus ==
    mpc = "exit" =>
        /\ Phase = "Completed" => exitCode = 0
        /\ exitCode # 0 => setupFailed

\* After a failed setup step the process has exited with status 1 and the
\* pipeline was never started: no worker started, no item generated, sent,
\* batched or written.
C13_NothingStarted ==
    setupFailed =>
        /\ mpc = "exit"
        /\ exitCode = 1
        /\ ppc = "nostart"
        /\ spawned = 0
        /\ wg = 0
        /\ \A w \in Workers : wpc[w] = "idle" /\ batch[w] = <<>> /\ calls[w] = <<>>
        /\ item = NoItem
        /\ Sent = {}
        /\ itemChan = <<>>
        /\ \A x \in AllItems : flushCount[x] = 0
        /\ okCalls = 0
        /\ ~anyFail

\* C13: when LoadDefaultConfig or ensureTableExists fails the run is aborted
\* before the pipeline starts: no worker is started, no item is generated,
\* sent or written, and the program takes no step after the failure.
C13_AbortBeforePipeline == []C13_NothingStarted /\ [][~setupFailed]_vars

\* The first table is ensured, ensureTableExists fails for the second and the
\* process has exited.
C13_Witness ==
    /\ setupFailed
    /\ tbl = 2
    /\ mpc = "exit"

\* C15: every item generateDailyData returns, for any previousClose > 0 and
\* any draws, has high >= max(open, close), low <= min(open, close),
\* high >= low, open, high, low and close > 0, volume >= 0 and
\* low <= vwap <= high.
C15_BarWellFormed ==
    gpc = "returned" =>
        /\ bar.high >= bar.open /\ bar.high >= bar.close
        /\ bar.low <= bar.open /\ bar.low <= bar.close
        /\ bar.high >= bar.low
        /\ bar.open > 0 /\ bar.high > 0 /\ bar.low > 0 /\ bar.close > 0
        /\ bar.volume >= 0
        /\ bar.low <= bar.vwap /\ bar.vwap <= bar.high

\* An item generated from a previousClose below 1.00, whose close is the floor
\* of 1.00 and above its open, with the greatest draws for high and low.
C15_Witness ==
    /\ gpc = "returned"
    /\ currentPrice = 50
    /\ draws[5] = 99
    /\ draws[6] = 99
    /\ bar.close = 100
    /\ bar.low < bar.open
    /\ bar.high > bar.close

\* C17 as stated: from the previousClose 100.00 the close lies in [95, 107].
C17_CloseWithin107 ==
    (gpc = "returned" /\ currentPrice = 10000) =>
        bar.close >= 9500 /\ bar.close <= 10700

\* C17: from the previousClose 100.00 the close of the generated item lies in
\* [95, 110] for every combination of the draws of dailyChange, trend and
\* volatility.
C17_CloseWithin110 ==
    (gpc = "returned" /\ currentPrice = 10000) =>
        bar.close >= 9500 /\ bar.close <= 11000

\* The item generated from 100.00 with the greatest draws of dailyChange,
\* trend and volatility closes above 107.00.
C17_Witness ==
    /\ gpc = "returned"
    /\ currentPrice = 10000
    /\ draws[1] = 99 /\ draws[2] = 99 /\ draws[3] = 99
    /\ bar.close > 10700

\* The items of the sequence s that are of ticker t, in order.
BarsOf(s, t) == SelectSeq(s, LAMBDA b : b.ticker = t)

\* C16: two runs with the same seed, tickers, base prices and totalDays emit
\* the same sequence of items for every ticker.
C16_SameSequence ==
    (run = 2 /\ gpc = "done") =>
        \A k \in 1..Len(cfg.tickers) :
            BarsOf(emitted, cfg.tickers[k]) = BarsOf(emitted1, cfg.tickers[k])

\* The day of an item.
DayOf(b) == b.timestamp \div 86400

\* Every day from day a to day b is a Saturday or a Sunday.
OnlyWeekend(a, b) == \A d \in a..b : Weekday(d) \notin 1..5

\* C18: for every ticker and every weekday of startDate the loop emits
\* exactly totalDays items; no item is dated on a Saturday or a Sunday; the
\* first item of a ticker is on the first trading day from startDate on and
\* each later one on the trading day that follows the day of the item before
\* it: no weekday is skipped and none is emitted twice.
C18_TradingDays ==
    gpc \in {"ticker", "day", "done"} =>
        /\ \A k \in 1..Len(emitted) : Weekday(DayOf(emitted[k])) \in 1..5
        /\ \A t \in 1..Len(cfg.tickers) :
             LET bars == BarsOf(emitted, cfg.tickers[t])
             IN  /\ Len(bars) <= cfg.totalDays
                 /\ (gpc = "done" \/ t < gt) => Len(bars) = cfg.totalDays
                 /\ bars # <<>> =>
                      /\ DayOf(bars[1]) >= startDate
                      /\ OnlyWeekend(startDate, DayOf(bars[1]) - 1)
                 /\ \A k \in 1..(Len(bars) - 1) :
                      /\ DayOf(bars[k]) < DayOf(bars[k + 1])
                      /\ OnlyWeekend(DayOf(bars[k]) + 1, DayOf(bars[k + 1]) - 1)

\* A run that starts on a Saturday has emitted six items for every ticker:
\* the loop skipped the weekend of the start and the one after it.
C18_Witness ==
    /\ gpc = "done"
    /\ Weekday(startDate) = 6
    /\ cfg.totalDays = 6
    /\ Len(emitted) = 6 * Len(cfg.tickers)

\* C19: within a ticker the first item is generated from the ticker's base
\* price and every later item from the close of the item before it, of the
\* same ticker; every generated close is at least 1.00.
C19_PriceChained ==
    /\ Len(args) = Len(emitted)
    /\ \A k \in 1..Len(emitted) :
         /\ emitted[k].close >= 100
         /\ IF k = 1 \/ emitted[k - 1].ticker # emitted[k].ticker
              THEN args[k] = getBasePrice(emitted[k].ticker)
              ELSE args[k] = emitted[k - 1].close
    /\ gpc = "returned" => bar.close >= 100

\* The first item of the second ticker is generated from its base price, not
\* from the close of the last item of the first ticker, and the item after it
\* from its close.
C19_Witness ==
    \E k \in 2..(Len(emitted) - 1) :
        /\ emitted[k - 1].ticker # emitted[k].ticker
        /\ args[k] # emitted[k - 1].close
        /\ emitted[k + 1].ticker = emitted[k].ticker
        /\ args[k + 1] = emitted[k].close
        /\ args[k + 1] # args[k]

\* C21: while a worker waits in the backoff of a retry, every other worker
\* that is in its range loop receives from the channel when it holds an item
\* and ends its loop when it is closed and empty, a worker at a BatchWriteItem
\* call makes it, and the producer sends while the channel is not full.
C21_BackoffBlocksOneWorker ==
    \A w \in Workers :
        wpc[w] = "sleep" =>
            /\ mu # w
            /\ \A v \in Workers \ {w} :
                 /\ (wpc[v] = "lock" /\ mu = 0) => ENABLED Lock(v)
                 /\ (wpc[v] = "recv" /\ itemChan # <<>>) => ENABLED Recv(v)
                 /\ (wpc[v] = "recv" /\ itemChan = <<>> /\ closed) => ENABLED RangeEnd(v)
                 /\ wpc[v] = "write" => ENABLED WriteOk(v) /\ ENABLED WriteFail(v)
            /\ (ppc = "send" /\ Len(itemChan) < cfg.cap) => ENABLED Send
            /\ ppc = "gen" => ENABLED Generate

\* A worker waits in a backoff while another is in its range loop with an item
\* in the channel, and the producer holds an item with room in the channel.
C21_Witness ==
    \E w, v \in Workers :
        /\ w # v
        /\ wpc[w] = "sleep"
        /\ wpc[v] = "recv"
        /\ itemChan # <<>>
        /\ ppc = "send"
        /\ Len(itemChan) < cfg.cap

\* The position of item x in the order of generation.
GenIndex(x) ==
    LET t == CHOOSE k \in 1..Len(cfg.tickers) : cfg.tickers[k] = x.ticker
    IN  (t - 1) * cfg.totalDays + x.seq

\* C22: in the batch of every worker, while it is collected and when it is
\* passed to processBatch, the items are in the order of their generation.
C22_BatchInGenerationOrder ==
    \A w \in Workers :
        \A i, j \in 1..Len(batch[w]) :
            i < j => GenIndex(batch[w][i]) < GenIndex(batch[w][j])

\* A worker is in processBatch with a batch of two items that were not
\* generated one after the other: another worker received the item between.
C22_Witness ==
    \E w \in Workers :
        /\ wpc[w] = "write"
        /\ Len(batch[w]) = 2
        /\ GenIndex(batch[w][2]) > GenIndex(batch[w][1]) + 1

\* The items generated and not yet in a batch passed to processBatch.
Pending ==
    { x \in Sent \cup ({item} \ {NoItem}) : flushCount[x] = 0 }

\* C26: the number of items generated and not yet passed to processBatch is
\* at most the capacity of the channel + numWorkers * batchSize + 1, whatever
\* the number of items to generate.
C26_PendingBounded ==
    Cardinality(Pending) <= cfg.cap + cfg.numWorkers * cfg.batchSize + 1

\* The channel is full, every worker holds batchSize - 1 items and the
\* producer holds one more, and more items are to be generated than the bound.
C26_Witness ==
    /\ Cardinality(Pending) = cfg.cap + cfg.numWorkers * (cfg.batchSize - 1) + 1
    /\ NumItems > cfg.cap + cfg.numWorkers * cfg.batchSize + 1

\* C27: when a worker has returned, the number of batches its completion line
\* reports is the number of batches it passed to processBatch.
C27_LoggedBatches ==
    \A w \in Workers :
        wpc[w] = "done" => logged[w] = Len(sizes[w])

\* The key of an item in the table: partition key ticker, sort key timestamp.
KeyOf(b) == <<b.ticker, b.timestamp>>

\* C28: the items generated in a run have pairwise distinct keys
\* (ticker, timestamp), and the timestamps of the items of a ticker are
\* strictly increasing in the order of generation; so no set of them, a batch
\* in particular, holds two items with the same key.
C28_DistinctKeys ==
    gpc \in {"ticker", "day", "done"} =>
        /\ \A i, j \in 1..Len(emitted) :
             i # j => KeyOf(emitted[i]) # KeyOf(emitted[j])
        /\ \A t \in 1..Len(cfg.tickers) :
             LET bars == BarsOf(emitted, cfg.tickers[t])
             IN  \A k \in 1..(Len(bars) - 1) : bars[k].timestamp < bars[k + 1].timestamp

\* A finished run in which two tickers have items with the same timestamp,
\* told apart by the ticker, and a ticker has several items.
C28_Witness ==
    /\ gpc = "done"
    /\ cfg.totalDays >= 2
    /\ \E i, j \in 1..Len(emitted) :
         /\ emitted[i].ticker # emitted[j].ticker
         /\ emitted[i].timestamp = emitted[j].timestamp

\* C23: a request served by GetAllTickers has called GetActiveTickers of the
\* ticker service once; when the service returned no error the response is
\* 200 with the returned tickers and their number as count, and when it
\* returned an error the response is 500 with the error "Failed to retrieve
\* tickers" and nothing else.
C23_GetAllTickers ==
    /\ hpc = "check" => svcCalls = 1
    /\ hpc = "done" =>
         /\ svcCalls = 1
         /\ IF svcRet.err = "nil"
              THEN /\ resp.status = 200
                   /\ DOMAIN resp.body = {"tickers", "count"}
                   /\ resp.body.tickers = svcRet.tickers
                   /\ resp.body.count = Len(svcRet.tickers)
                   /\ svcRet.tickers = <<>> => resp.body.count = 0
              ELSE /\ resp.status = 500
                   /\ DOMAIN resp.body = {"error"}
                   /\ resp.body.error = "Failed to retrieve tickers"

\* The service returned tickers together with an error, and the response is
\* 500 without the tickers.
C23_Witness ==
    /\ hpc = "done"
    /\ svcRet.err # "nil"
    /\ svcRet.tickers # <<>>
    /\ resp.status = 500


\* The tickers of the slice sl whose Active field is 1.
ActiveOf(sl) == { sl[k] : k \in { i \in 1..Len(sl) : sl[i].active = 1 } }

\* The tickers of the slice sl whose Active field is 1 and whose symbol no
\* later ticker of the slice has.
LastActiveOf(sl) ==
    { sl[k] : k \in { i \in 1..Len(sl) :
                        /\ sl[i].active = 1
                        /\ \A j \in (i + 1)..Len(sl) : sl[j].ticker # sl[i].ticker } }

\* The sequence q holds each element of the set S once and nothing else.
OneEach(q, S) == Len(q) = Cardinality(S) /\ Range(q) = S

\* GetActiveTickers returned last, to a single caller, what its default
\* implementation or its override function produced.
ActiveReturned(from) ==
    /\ Cardinality(Callers) = 1
    /\ returned.op = "GetActiveTickers"
    /\ returned.from = from

\* C24 as stated: with no override function, GetActiveTickers returns each
\* ticker of the most recent SetTickers whose Active field is 1 once, and
\* nothing when there is none or after Reset; with GetActiveTickersFunc set it
\* returns the function's result and error unchanged.
C24_ActiveOfLastSet ==
    /\ ActiveReturned("default") =>
         /\ ~mfunc.GetActiveTickersFunc.set
         /\ returned.err = "nil"
         /\ OneEach(returned.tickers, ActiveOf(lastSet))
    /\ ActiveReturned("func") =>
         /\ mfunc.GetActiveTickersFunc.set
         /\ returned.tickers = mfunc.GetActiveTickersFunc.tickers
         /\ returned.err = mfunc.GetActiveTickersFunc.err

\* C24, amended: with no override function, GetActiveTickers returns once each
\* ticker of the most recent SetTickers that is the last of its symbol in the
\* slice and whose Active field is 1, and nothing when there is none or after
\* Reset; with GetActiveTickersFunc set it returns the function's result and
\* error unchanged.
C24_LastOfSymbolActive ==
    /\ ActiveReturned("default") =>
         /\ ~mfunc.GetActiveTickersFunc.set
         /\ returned.err = "nil"
         /\ OneEach(returned.tickers, LastActiveOf(lastSet))
    /\ ActiveReturned("func") =>
         /\ mfunc.GetActiveTickersFunc.set
         /\ returned.tickers = mfunc.GetActiveTickersFunc.tickers
         /\ returned.err = mfunc.GetActiveTickersFunc.err

\* After a third call, GetActiveTickers has returned one ticker of a slice of
\* two tickers of which one is inactive.
C24_Witness ==
    /\ ActiveReturned("default")
    /\ mops >= 3
    /\ Len(lastSet) = 2
    /\ \E k \in 1..2 : lastSet[k].active = 0
    /\ Len(returned.tickers) = 1

\* The calls of the method op among the calls cs.
Tracked(cs, op) == SelectSeq(cs, LAMBDA e : e[1] = op)

\* The calls since the last Reset that have left the statement that records
\* them.
Past == IF mmu.w = 0 THEN recorded ELSE SubSeq(recorded, 1, Len(recorded) - 1)

\* C25: whatever the interleaving of the callers, Calls.GetTicker holds the
\* symbols of the GetTicker calls since the last Reset, one per call in call
\* order, and Calls.GetActiveTickers holds one entry per GetActiveTickers call
\* since the last Reset, whether the call is served by the default
\* implementation or an override function and whether it returns an error;
\* Reset leaves both lists and the stored tickers empty.
C25_CallsRecorded ==
    /\ mcalls.GetTicker =
         [i \in 1..Len(Tracked(Past, "GetTicker")) |-> Tracked(Past, "GetTicker")[i][2]]
    /\ Len(mcalls.GetActiveTickers) = Len(Tracked(Past, "GetActiveTickers"))
    /\ (returned.op = "Reset" /\ recorded = <<>>) =>
         /\ mcalls = NoCalls
         /\ mtickers = <<>>

\* Two callers: both lists hold an entry, a call has returned an error, and
\* the other caller is still in its call.
C25_Witness ==
    /\ Cardinality(Callers) = 2
    /\ mmu.w = 0
    /\ mcalls.GetTicker # <<>>
    /\ mcalls.GetActiveTickers # <<>>
    /\ returned.err # "nil"
    /\ \E c \in Callers : caller[c].pc \in {"func", "rlock", "read"}

\* The jobs enqueued with records of the t-th ticker's series, in order.
JobsOf(t) ==
    SelectSeq(jsent, LAMBDA j : /\ j.tableName = "DailySummary"
                                /\ j.items # <<>>
                                /\ j.items[1][1] = t)

\* The items of the jobs js, one job after the other.
RECURSIVE RecordsOf(_)
RecordsOf(js) == IF js = <<>> THEN <<>> ELSE Head(js).items \o RecordsOf(Tail(js))

\* The least number of batches of b records that hold n records.
Ceil(n, b) == (n + b - 1) \div b

\* The producer has cut the whole series of the t-th ticker.
CutDone(t) == jprod.pc \in {"wait", "done"} \/ (jprod.pc = "cut" /\ jprod.t > t)

\* C29: every job cut from a ticker's series holds between 1 and batchSize
\* records, only the last job of a ticker holds fewer than batchSize, the jobs
\* of a ticker in order are the series cut so far, a ticker with n records
\* yields ceil(n / batchSize) jobs that are together the series, and no job is
\* without items, so that no worker fails at job.items[0].
C29_JobsCutSeries ==
    /\ \A t \in 1..Len(jcfg.series) :
         /\ \A k \in 1..Len(JobsOf(t)) :
              /\ Len(JobsOf(t)[k].items) \in 1..jcfg.batchSize
              /\ k < Len(JobsOf(t)) => Len(JobsOf(t)[k].items) = jcfg.batchSize
         /\ Len(RecordsOf(JobsOf(t))) <= jcfg.series[t]
         /\ RecordsOf(JobsOf(t)) = SubSeq(StockData(t), 1, Len(RecordsOf(JobsOf(t))))
         /\ CutDone(t) =>
              /\ Len(JobsOf(t)) = Ceil(jcfg.series[t], jcfg.batchSize)
              /\ RecordsOf(JobsOf(t)) = StockData(t)
    /\ \A k \in 1..Len(jsent) : jsent[k].items # <<>>
    /\ \A k \in 2..Len(jsent) : jsent[k] \in UNION { Range(JobsOf(t)) : t \in 1..Len(jcfg.series) }
    /\ \A w \in JobWorkers : jwork[w].pc # "panic"

\* The seeder has ended, a series of three records was cut with batchSize 2
\* into a job of two records and a job of one, and both were processed.
C29_Witness ==
    /\ jprod.pc = "done"
    /\ jcfg.batchSize = 2
    /\ \E t \in 1..Len(jcfg.series) :
         /\ jcfg.series[t] = 3
         /\ Len(JobsOf(t)) = 2
         /\ Len(JobsOf(t)[2].items) = 1
         /\ \E e \in BagToSet(jdone) : e.job = JobsOf(t)[2]

\* The number of times the job j was processed, by whatever worker.
TimesDone(j) ==
    SumOver([e \in BagToSet(jdone) |-> IF e.job = j THEN CopiesIn(e, jdone) ELSE 0],
            BagToSet(jdone))

\* The number of places the job j is at: the buffer of the channel, a worker
\* that has received it, the jobs processed.
PlacesOf(j) ==
    Cardinality({ k \in 1..Len(jobChan.buf) : jobChan.buf[k] = j })
      + Cardinality({ w \in JobWorkers : jwork[w].pc \in {"item", "panic"} /\ jwork[w].job = j })
      + TimesDone(j)

\* No job is processed twice, every job enqueued is in the channel, with one
\* worker or processed, only enqueued jobs are processed, and the success
\* message is printed after the channel is closed, all workers have returned
\* and each job was processed once.
JobsOnce ==
    /\ \A a, b \in 1..Len(jsent) : a # b => jsent[a] # jsent[b]
    /\ \A k \in 1..Len(jsent) : PlacesOf(jsent[k]) = 1 /\ TimesDone(jsent[k]) <= 1
    /\ \A e \in BagToSet(jdone) : e.job \in Range(jsent) /\ e.w \in JobWorkers
    /\ jprod.pc = "done" =>
         /\ jobChan.closed
         /\ jobChan.buf = <<>>
         /\ \A w \in JobWorkers : jwork[w].pc = "done"
         /\ \A k \in 1..Len(jsent) : TimesDone(jsent[k]) = 1

\* C30: whatever the capacity of the job channel and the number of workers,
\* every job the producer enqueues is processed once by one worker, the
\* producer is never blocked for ever, also when there are more jobs than the
\* channel holds, and the success message is printed only after the channel is
\* closed and all workers have returned.
C30_EachJobOnce == []JobsOnce /\ <>(jprod.pc = "done")

\* The success message is printed after more jobs than the channel holds were
\* enqueued and two workers have processed jobs.
C30_Witness ==
    /\ jprod.pc = "done"
    /\ Len(jsent) > jcfg.cap
    /\ \E e, f \in BagToSet(jdone) : e.w # f.w

\* C31: whatever the interleaving of the workers, when the first daily-summary
\* record is written to the DailySummary table, the turn of every ticker record
\* in the loop that writes the Tickers table is over.
C31_TickersFirst == jwrites.first # -1 => jwrites.first = Len(TickerItems)

\* C32: for each job processed, the number of records the progress line
\* reports as inserted is the number of records of the job whose MarshalMap
\* and PutItem both succeeded.
C32_ReportedAreWritten == \A e \in BagToSet(jdone) : e.inserted = e.ok

\* One of the three events Start waits for has occurred.
EventOccurred ==
    /\ spc = "select"
    /\ serverErrors[scall] # <<>> \/ shutdownCh # <<>> \/ ctxDone

\* What Start has returned is what its case of the select prescribes, and the
\* goroutine's send finds room in serverErrors.
StartResult ==
    /\ spc = "returned" =>
         /\ shist.trig \in {"listener", "signal", "ctx"}
         /\ shist.trig = "listener" =>
              /\ shist.got # ErrServerClosed => sret = shist.got
              /\ shist.got = ErrServerClosed => sret = "nil"
         /\ shist.trig \in {"signal", "ctx"} =>
              \/ sret = "nil" /\ shist.grace = -1 /\ httpd.inflight = 0
              \/ /\ sret \in {"context canceled", "context deadline exceeded"}
                 /\ shist.grace # -1
                 /\ httpd = [state |-> "closed", inflight |-> 0]
    /\ \A c \in DOMAIN listener : listener[c].pc = "send" => serverErrors[c] = <<>>

\* C33: once the listener's result, a signal or the cancellation of ctx has
\* occurred, Start returns; it returns the listener's error unless that is
\* http.ErrServerClosed, nil if it is, and on a signal or a cancellation nil
\* when Shutdown succeeded and otherwise Shutdown's error with the server
\* closed by force; the goroutine's send on serverErrors never waits.
C33_StartReturns == []StartResult /\ (EventOccurred ~> spc = "returned")

\* A second call of Start, on the server the first call shut down, has
\* received http.ErrServerClosed and returned nil, and the first call had
\* returned Shutdown's error.
C33_Witness ==
    /\ spc = "returned"
    /\ scall = 2
    /\ shist.trig = "listener"
    /\ shist.got = ErrServerClosed
    /\ sret = "nil"
    /\ httpd.state = "closed"

\* C34: when the shutdown was started by the cancellation of ctx and the
\* server was closed by force, the requests in flight had ShutdownTimeout to
\* complete, as they have when a signal starts the shutdown.
C34_GraceOnCancel ==
    (shist.trig = "ctx" /\ shist.grace # -1) => shist.grace = ShutdownTimeout

\* The goroutine c has returned from a call of one of the functions fs.
LogReturned(c, fs) == lcaller[c].pc = "idle" /\ lcaller[c].op \in fs

\* C35: whatever the calls of Init, InitWithDefaults and Get and their
\* interleaving, buildLogger is run at most once; instance and initErr are what
\* it made of the configuration of that run, whatever configuration a later
\* Init is given; every Init and InitWithDefaults returns the error of that
\* run; and every Get that returns after a successful build returns instance.
C35_InitOnce ==
    /\ Len(builds) <= 1
    /\ builds = <<>> => instance = "nil" /\ initErr = "nil" /\ ~once.done
    /\ builds # <<>> =>
         /\ once.done
         /\ instance = buildLogger(builds[1]).logger
         /\ initErr = buildLogger(builds[1]).err
    /\ \A c \in LogCallers :
         /\ LogReturned(c, {"Init", "InitWithDefaults"}) =>
              builds # <<>> /\ lcaller[c].ret = buildLogger(builds[1]).err
         /\ (LogReturned(c, {"Get"}) /\ instance # "nil") => lcaller[c].ret = instance

\* The logger was built from one configuration, an Init with another
\* configuration has returned, and so has a Get, with the logger.
C35_Witness ==
    /\ instance # "nil"
    /\ \E c, d \in LogCallers :
         /\ LogReturned(c, {"Init"})
         /\ lcaller[c].cfg # builds[1]
         /\ LogReturned(d, {"Get"})
         /\ lcaller[d].ret = instance

\* ---------------------------------------------------------------- tickerService.GetTicker
\* every variable but the service's
exceptService == <<oldVars, serverVars, loggerVars, repoVars, validVars, summaryVars>>

\* GetTicker is called at most
MaxSvcCalls == 2

\* times. An error is the chain errors.Unwrap walks, its head first; a link has
\* a dynamic type and a value.
ErrTickerNotFound == <<[type |-> "*errors.errorString", val |-> "ticker not found"]>>

ErrInvalidTicker == <<[type |-> "*errors.errorString", val |-> "invalid ticker symbol"]>>

\* repository.ErrTickerNotFound{Symbol: sym}
RepoErrTickerNotFound(sym) == <<[type |-> "repository.ErrTickerNotFound", val |-> sym]>>

\* repository.ErrInvalidTicker{Reason: reason}
RepoErrInvalidTicker(reason) ==
    <<[type |-> "repository.ErrInvalidTicker", val |-> reason]>>

\* An error of the DynamoDB client.
AwsError == <<[type |-> "*smithy.OperationError", val |-> "operation error DynamoDB"]>>

\* fmt.Errorf(prefix + ": %w", e): a *fmt.wrapError that unwraps to e
Errorf(prefix, e) == <<[type |-> "*fmt.wrapError", val |-> prefix]>> \o e

\* Is with the comparison of the types only
IsOfType(e, target) == \E k \in 1..Len(e) : e[k].type = target[1].type

\* errors.Is(e, target), target of a comparable type: some link of the chain
\* of e equals target
Is(e, target) == \E k \in 1..Len(e) : e[k] = target[1]

\* The symbols GetTicker is called with.
ServiceSymbols == {"", "AAPL", "GOOGL", "INVALID"}

\* What a TickerRepository answers when asked for sym: the table's ticker, no
\* ticker and no error, ErrTickerNotFound for a symbol, bare or wrapped, and
\* the failures of the query and of the unmarshalling.
RepoAnswers(sym) ==
    { [ticker |-> "&" \o sym, err |-> NoError], [ticker |-> NoTicker, err |-> NoError] }
      \cup { [ticker |-> NoTicker, err |-> e] :
               e \in { RepoErrTickerNotFound(x) : x \in ServiceSymbols \ {""} }
                       \cup { Errorf("lookup failed", RepoErrTickerNotFound(x)) :
                                x \in ServiceSymbols \ {""} }
                       \cup { Errorf("failed to query ticker " \o sym, AwsError),
                              Errorf("failed to unmarshal ticker", AwsError),
                              RepoErrInvalidTicker("database connection failed") } }

InitService ==
    /\ OldOff
    /\ ServerOff
    /\ LoggerOff
    /\ RepoOff
    /\ ValidOff
    /\ SummaryOff
    /\ NewService(0)

\* GetTicker(ctx, symbol) is called
GetTickerCall ==
    /\ tpc \in {"idle", "returned"}
    /\ tcalls < MaxSvcCalls
    /\ tcalls' = tcalls + 1
    /\ tsym' \in ServiceSymbols
    /\ tpc' = "check"
    /\ trepo' = [ticker |-> NoTicker, err |-> NoError]
    /\ trepoCalls' = <<>>
    /\ tret' = [ticker |-> NoTicker, err |-> NoError]
    /\ UNCHANGED exceptService

\* if symbol == "" { return nil, ErrInvalidTicker }
CheckSymbol ==
    /\ tpc = "check"
    /\ IF tsym = ""
         THEN /\ tret' = [ticker |-> NoTicker, err |-> ErrInvalidTicker]
              /\ tpc' = "returned"
         ELSE /\ tpc' = "repo"
              /\ UNCHANGED tret
    /\ UNCHANGED <<tsym, trepo, trepoCalls, tcalls>>
    /\ UNCHANGED exceptService

\* ticker, err := s.repo.GetTicker(ctx, symbol)
RepoGetTicker ==
    /\ tpc = "repo"
    /\ trepoCalls' = Append(trepoCalls, tsym)
    /\ trepo' \in RepoAnswers(tsym)
    /\ tpc' = "map"
    /\ UNCHANGED <<tsym, tret, tcalls>>
    /\ UNCHANGED exceptService

\* the statements after the call of the repository
GetTickerReturn ==
    /\ tpc = "map"
    /\ tret' = IF trepo.err # NoError
                 THEN IF Is(trepo.err, RepoErrTickerNotFound(tsym))
                        THEN [ticker |-> NoTicker, err |-> ErrTickerNotFound]
                        ELSE [ticker |-> NoTicker,
                              err |-> Errorf("failed to get ticker", trepo.err)]
                 ELSE [ticker |-> trepo.ticker, err |-> NoError]
    /\ tpc' = "returned"
    /\ UNCHANGED <<tsym, trepo, trepoCalls, tcalls>>
    /\ UNCHANGED exceptService

NextService == GetTickerCall \/ CheckSymbol \/ RepoGetTicker \/ GetTickerReturn

SpecService == InitService /\ [][NextService]_vars

\* The repository reported ErrTickerNotFound for the symbol asked: the value
\* repository.ErrTickerNotFound{Symbol: tsym} is in the chain of its error.
ReportsNotFound ==
    \E k \in DOMAIN trepo.err :
        /\ trepo.err[k].type = "repository.ErrTickerNotFound"
        /\ trepo.err[k].val = tsym

\* C36: GetTicker returns ErrInvalidTicker for an empty symbol and does not call
\* the repository; for any other symbol it calls the repository once, with
\* that symbol, and returns the repository's ticker when the repository
\* succeeds, service.ErrTickerNotFound when the repository reports
\* ErrTickerNotFound for the symbol, and otherwise an error that is neither
\* sentinel and wraps the repository's error
C36_GetTicker ==
    /\ Len(trepoCalls) <= 1
    /\ tsym = "" => trepoCalls = <<>>
    /\ tpc = "returned" =>
         IF tsym = ""
           THEN tret = [ticker |-> NoTicker, err |-> ErrInvalidTicker]
           ELSE /\ trepoCalls = <<tsym>>
                /\ trepo.err = NoError => tret = [ticker |-> trepo.ticker, err |-> NoError]
                /\ ReportsNotFound =>
                     tret = [ticker |-> NoTicker, err |-> ErrTickerNotFound]
                /\ (trepo.err # NoError /\ ~ReportsNotFound) =>
                     /\ tret.ticker = NoTicker
                     /\ tret.err \notin {NoError, ErrTickerNotFound, ErrInvalidTicker}
                     /\ Head(tret.err).type = "*fmt.wrapError"
                     /\ Tail(tret.err) = trepo.err

\* GetTicker has returned for a symbol whose repository reported another
\* symbol as not found: the error is the repository's, wrapped
C36_Witness ==
    /\ tpc = "returned"
    /\ tsym = "AAPL"
    /\ trepo.err = RepoErrTickerNotFound("GOOGL")
    /\ tret.err = Errorf("failed to get ticker", RepoErrTickerNotFound("GOOGL"))

\* ---------------------------------------------------------------- tickerRepository.GetActiveTickers
\* every variable but the repository's
exceptRepo == <<oldVars, serverVars, loggerVars, serviceVars, validVars, summaryVars>>

\* The table is scanned in at most
MaxPages == 3

\* pages, of at most
MaxPageItems == 2

\* items that pass the filter. A page holds a number of such items, and the
\* failure met at it: of its Scan, of its unmarshalling, or none. No page
\* is read after one that fails, so that one page at most fails.
PageFailures(n) ==
    { [at |-> 0, kind |-> "none"] }
      \cup { [at |-> i, kind |-> k] : i \in 1..n, k \in {"scan", "unmarshal"} }

\* The tables of n pages.
TablesOfLen(n) ==
    { [i \in 1..n |-> [n |-> c[i], fail |-> IF f.at = i THEN f.kind ELSE "none"]] :
        c \in [1..n -> 0..MaxPageItems], f \in PageFailures(n) }

PagedTables == UNION { TablesOfLen(n) : n \in 1..MaxPages }

\* The items of page i: attribute maps, the j-th with the symbol <<i, j>>.
PageItems(i) == [j \in 1..rpages[i].n |-> [ticker |-> [S |-> <<i, j>>]]]

\* The key DynamoDB returns with page i: the page's number, 0 (nil) with the
\* last page.
KeyAfter(i) == IF i < Len(rpages) THEN i ELSE 0

\* r.client.Scan with ExclusiveStartKey k, when it succeeds: the page after
\* the key
ScanOutput(k) == [Items |-> PageItems(k + 1), LastEvaluatedKey |-> KeyAfter(k + 1)]

\* attributevalue.UnmarshalListOfMaps(items, &batch), when it succeeds
UnmarshalListOfMaps(items) == [j \in DOMAIN items |-> [Ticker |-> items[j].ticker.S]]

\* The batch takes the place of tickers.
BatchOnly(t, b) == b

\* append(tickers, batch...)
AppendBatch(t, b) == t \o b

InitRepo ==
    /\ OldOff
    /\ ServerOff
    /\ LoggerOff
    /\ ServiceOff
    /\ ValidOff
    /\ SummaryOff
    /\ \E p \in PagedTables : NewRepository(p)

\* GetActiveTickers(ctx) is called: the expression is built, tickers and
\* lastEvaluatedKey are nil
ActiveCall ==
    /\ rpc = "idle"
    /\ rpc' = "scan"
    /\ rtickers' = <<>>
    /\ rkey' = 0
    /\ UNCHANGED <<rpages, rresult, rscans, rret>>
    /\ UNCHANGED exceptRepo

\* the input is made, with lastEvaluatedKey as its ExclusiveStartKey when that
\* is not nil, and Scan is called
ScanPage ==
    /\ rpc = "scan"
    /\ rscans' = Append(rscans, rkey)
    /\ IF rpages[rkey + 1].fail = "scan"
         THEN /\ rret' = [tickers |-> <<>>,
                          err |-> Errorf("failed to scan active tickers", AwsError)]
              /\ rpc' = "returned"
              /\ UNCHANGED rresult
         ELSE /\ rresult' = ScanOutput(rkey)
              /\ rpc' = "unmarshal"
              /\ UNCHANGED rret
    /\ UNCHANGED <<rpages, rtickers, rkey>>
    /\ UNCHANGED exceptRepo

\* the items are unmarshalled and appended; the loop ends when the page has
\* no LastEvaluatedKey
UnmarshalPage ==
    /\ rpc = "unmarshal"
    /\ IF rpages[rkey + 1].fail = "unmarshal"
         THEN /\ rret' = [tickers |-> <<>>,
                          err |-> Errorf("failed to unmarshal tickers", AwsError)]
              /\ rpc' = "returned"
              /\ UNCHANGED <<rtickers, rkey>>
         ELSE /\ rtickers' = AppendBatch(rtickers, UnmarshalListOfMaps(rresult.Items))
              /\ IF rresult.LastEvaluatedKey = 0
                   THEN /\ rret' = [tickers |-> rtickers', err |-> NoError]
                        /\ rpc' = "returned"
                        /\ UNCHANGED rkey
                   ELSE /\ rkey' = rresult.LastEvaluatedKey
                        /\ rpc' = "scan"
                        /\ UNCHANGED rret
    /\ UNCHANGED <<rpages, rresult, rscans>>
    /\ UNCHANGED exceptRepo

NextRepo == ActiveCall \/ ScanPage \/ UnmarshalPage

SpecRepo == InitRepo /\ [][NextRepo]_vars

\* The first page at which the scan or the unmarshalling fails, 0 when none does.
FirstFailure ==
    IF \E i \in DOMAIN rpages : rpages[i].fail # "none"
      THEN CHOOSE i \in DOMAIN rpages :
             /\ rpages[i].fail # "none"
             /\ \A k \in 1..(i - 1) : rpages[k].fail = "none"
      ELSE 0

\* The tickers of the pages from i to the last one, in order.
RECURSIVE TickersFrom(_)
TickersFrom(i) ==
    IF i > Len(rpages) THEN <<>>
    ELSE [j \in 1..rpages[i].n |-> [Ticker |-> <<i, j>>]] \o TickersFrom(i + 1)

\* C37: GetActiveTickers scans one page at a time, the first scan with no start
\* key and each further one with the key the page before returned; with no
\* failure it scans up to the page that returns no key and returns the tickers
\* of all pages in order; with a failure at a page it scans up to that page and
\* returns an error and no tickers
C37_Pagination ==
    /\ \A i \in DOMAIN rscans : rscans[i] = IF i = 1 THEN 0 ELSE KeyAfter(i - 1)
    /\ rpc = "returned" =>
         IF FirstFailure = 0
           THEN /\ Len(rscans) = Len(rpages)
                /\ rret = [tickers |-> TickersFrom(1), err |-> NoError]
           ELSE /\ Len(rscans) = FirstFailure
                /\ rret.tickers = <<>>
                /\ rret.err # NoError

\* GetActiveTickers has returned the tickers of three pages, the second one empty
C37_Witness ==
    /\ rpc = "returned"
    /\ Len(rpages) = 3
    /\ rpages[1].n = 2 /\ rpages[2].n = 0 /\ rpages[3].n = 1
    /\ rret = [tickers |-> <<[Ticker |-> <<1, 1>>], [Ticker |-> <<1, 2>>],
                             [Ticker |-> <<3, 1>>]>>,
               err |-> NoError]

\* ---------------------------------------------------------------- DailySummary.Validate
\* every variable but those of the call of Validate
exceptValid == <<oldVars, serverVars, loggerVars, serviceVars, repoVars, summaryVars>>

\* The prices of the bars Validate is applied to go up to
MaxPrice == 2

\* d.Validate(): the message of the error, "nil" for no error
Validate(d) ==
    IF d.Ticker = "" THEN "ticker is required"
    ELSE IF d.Timestamp <= 0 THEN "timestamp must be positive"
    ELSE IF d.High < d.Low THEN "high price cannot be less than low price"
    ELSE IF d.Open <= 0 \/ d.Close <= 0 \/ d.High <= 0 \/ d.Low <= 0
      THEN "prices must be positive"
    ELSE IF d.Volume < 0 THEN "volume cannot be negative"
    ELSE IF d.VWAP # 0 /\ (d.VWAP < d.Low \/ d.VWAP > d.High)
      THEN "VWAP must be between low and high prices"
    ELSE "nil"

\* The DailySummary values Validate is applied to: with and without a ticker
\* and a timestamp, the prices from 0 up, a volume below, at and above 0, no
\* VWAP (0) or one up to above the highest price.
SummaryValues ==
    { [ZeroSummary EXCEPT !.Ticker = t, !.Timestamp = ts, !.Open = o, !.High = h,
                          !.Low = l, !.Close = c, !.Volume = v, !.VWAP = w] :
        t \in {"", "AAPL"}, ts \in {0, 86400}, o \in 0..MaxPrice, h \in 0..MaxPrice,
        l \in 0..MaxPrice, c \in 0..MaxPrice, v \in {-1, 0, 1}, w \in 0..(MaxPrice + 1) }

InitValid ==
    /\ OldOff
    /\ ServerOff
    /\ LoggerOff
    /\ ServiceOff
    /\ RepoOff
    /\ SummaryOff
    /\ \E b \in SummaryValues : ValidateOn(b)

\* err := d.Validate()
ValidateCall ==
    /\ vres = "none"
    /\ vres' = Validate(vbar)
    /\ UNCHANGED vbar
    /\ UNCHANGED exceptValid

NextValid == ValidateCall

SpecValid == InitValid /\ [][NextValid]_vars

\* The invariants of a DailyBar.
DailyBarInvariants(d) ==
    /\ d.High >= max(d.Open, d.Close)
    /\ d.Low <= min(d.Open, d.Close)
    /\ d.High >= d.Low
    /\ d.Open > 0 /\ d.Close > 0 /\ d.High > 0 /\ d.Low > 0
    /\ d.Volume >= 0
    /\ d.VWAP # 0 => (d.Low <= d.VWAP /\ d.VWAP <= d.High)

\* C38: Validate returns nil only for bars that satisfy every DailyBar
\* invariant: high >= max(open, close), low <= min(open, close), high >= low,
\* all four prices > 0, volume >= 0, and vwap in [low, high] when present
C38_ValidOnlyInvariantBars == vres = "nil" => DailyBarInvariants(vbar)

\* ---------------------------------------------------------------- generateDailySummaryData
\* every variable but those of generateDailySummaryData
exceptSummary == <<oldVars, serverVars, loggerVars, serviceVars, repoVars, validVars>>

\* float32 is scaled down to a binary floating-point format with a significand of
MantissaBits == 8

\* bits, whose least positive value is 1 / Unit. A float32 or float64 value is
\* written as the whole number of times it holds that least value; the sums
\* and differences of float64 in the function are exact.
Unit == 2 ^ MantissaBits

\* rand.Float32() is scaled down to the multiples of 2 ^ -DrawBits in [0, 1)
DrawBits == 4

\* The numerators of the draws: the least, the middle and the greatest value.
DrawNums == {0, 2 ^ (DrawBits - 1), 2 ^ DrawBits - 1}

\* The range of dates has at most
MaxSumDays == 2

\* days. n / d rounded to the nearest whole number, a tie to the even one.
RoundHalfEven(n, d) ==
    LET q == n \div d
        r == n % d
    IN  IF 2 * r < d THEN q
        ELSE IF 2 * r > d THEN q + 1
        ELSE q + (q % 2)

\* The spacing of the values of the format around n / d >= 0: the least power
\* of two g, from g on, with n / d < 2 ^ MantissaBits * g.
RECURSIVE Spacing(_, _, _)
Spacing(n, d, g) == IF n \div (d * g) < Unit THEN g ELSE Spacing(n, d, 2 * g)

\* The conversion of the exact value n / d to float32, and the rounding of the
\* result of an operation on float32: the nearest value of the format, a tie
\* to the one with the even significand.
Float32(n, d) ==
    LET g == Spacing(abs(n), d, 1)
    IN  IF n >= 0 THEN g * RoundHalfEven(n, d * g)
        ELSE -(g * RoundHalfEven(-n, d * g))

\* x * y for the float32 x and y
Times(x, y) == Float32(x * y, Unit)

\* rand.Float32() - 0.5 for the draw k / 2 ^ DrawBits
Centered(k) == Float32(Float32(k * Unit, 2 ^ DrawBits) - Float32(Unit, 2), 1)

\* rand.Float32() * x for the draw k / 2 ^ DrawBits and the float32 x
DrawTimes(k, x) == Float32(k * x, 2 ^ DrawBits)

\* initialPrices[ticker], and 100.0 for a ticker that is not in the map
BasePrice(ticker) ==
    Float32(Unit * (CASE ticker = "AAPL" -> 150 [] ticker = "GOOGL" -> 100
                      [] ticker = "MSFT" -> 250 [] ticker = "AMZN" -> 120
                      [] ticker = "TSLA" -> 200 [] ticker = "META" -> 300
                      [] ticker = "NVDA" -> 400 [] ticker = "JPM" -> 140
                      [] ticker = "V" -> 220 [] ticker = "WMT" -> 150
                      [] ticker = "DIS" -> 100 [] ticker = "NFLX" -> 350
                      [] ticker = "BA" -> 200 [] ticker = "KO" -> 60
                      [] ticker = "PFE" -> 40 [] OTHER -> 100), 1)

\* currentPrice * (1 + changePercent), changePercent := (rand.Float32() - 0.5) * 0.1
NextPrice(price, k) ==
    Times(price, Float32(Unit + Times(Centered(k), Float32(Unit, 10)), 1))

\* The DailySummary of the day d at the new currentPrice, with the draws k in
\* the order of the calls of rand.Float32(); the first draw has made the price.
\* The volume is in shares: it is above 2 ^ MantissaBits, where the values of
\* the format are whole numbers.
SummaryItem(ticker, d, price, k) ==
    LET open == Times(price, Float32(Unit + Times(Centered(k[2]), Float32(2 * Unit, 100)), 1))
        close == price
        dayRange == Times(price, Float32(3 * Unit, 100))
        high == max(open, close) + DrawTimes(k[3], dayRange)
        low == min(open, close) - DrawTimes(k[4], dayRange)
        volume == Float32(Float32(10000000, 1)
                            + Float32(k[5] * Float32(90000000, 1), 2 ^ DrawBits), 1)
        vwap == Float32(Float32(low, 1) + DrawTimes(k[6], Float32(high - low, 1)), 1)
    IN  [Ticker |-> ticker,
         Close |-> close,
         High |-> Float32(high, 1),
         Low |-> Float32(low, 1),
         Open |-> open,
         Volume |-> volume,
         Timestamp |-> Unix(d),
         TransactionCount |-> Float32(volume, 1000),
         OTC |-> FALSE,
         VWAP |-> vwap]

\* The tickers the function is called with: two of the sample and one that
\* has no initial price.
SummaryTickers == {"PFE", "AAPL", "TEST"}

\* The start dates: Friday 1 January 2021 to Sunday 3 January 2021.
SummaryStarts == 18628..18630

InitSummary ==
    /\ OldOff
    /\ ServerOff
    /\ LoggerOff
    /\ ServiceOff
    /\ RepoOff
    /\ ValidOff
    /\ \E t \in SummaryTickers, from \in SummaryStarts, n \in 1..MaxSumDays :
         SummaryCall(t, from, from + n - 1)

\* the initial price is looked up; d := startDate
SumCall ==
    /\ dpc = "call"
    /\ dprice' = BasePrice(dticker)
    /\ dpc' = "loop"
    /\ UNCHANGED <<dticker, dday, dend, ddata>>
    /\ UNCHANGED exceptSummary

\* d is after endDate: the loop ends and the data is returned
SumReturn ==
    /\ dpc = "loop"
    /\ dday > dend
    /\ dpc' = "returned"
    /\ UNCHANGED <<dticker, dday, dend, dprice, ddata>>
    /\ UNCHANGED exceptSummary

\* d is a Saturday or a Sunday: continue
SumSkipWeekend ==
    /\ dpc = "loop"
    /\ dday <= dend
    /\ IsWeekend(dday)
    /\ dday' = dday + 1
    /\ UNCHANGED <<dpc, dticker, dend, dprice, ddata>>
    /\ UNCHANGED exceptSummary

\* d is a weekday: the price moves and the day's DailySummary is appended
SumRecord ==
    /\ dpc = "loop"
    /\ dday <= dend
    /\ ~IsWeekend(dday)
    /\ \E k \in [1..6 -> DrawNums] :
         /\ dprice' = NextPrice(dprice, k[1])
         /\ ddata' = Append(ddata, SummaryItem(dticker, dday, dprice', k))
    /\ dday' = dday + 1
    /\ UNCHANGED <<dpc, dticker, dend>>
    /\ UNCHANGED exceptSummary

NextSummary == SumCall \/ SumReturn \/ SumSkipWeekend \/ SumRecord

SpecSummary == InitSummary /\ [][NextSummary]_vars

\* C39: every record generateDailySummaryData produces is accepted by Validate
\* (a ticker, a positive timestamp, high >= low, positive prices, a volume that
\* is not negative, the VWAP in [low, high]) and none is dated on a Saturday
\* or a Sunday
C39_RecordsValid ==
    \A i \in DOMAIN ddata :
        /\ Validate(ddata[i]) = "nil"
        /\ ~IsWeekend(ddata[i].Timestamp \div 86400)
====
